---- MODULE Spec2Model ----
(***************************************************************************)
(* A model of nonobvious.schedulers.GolessScheduler and nonobvious.nodes.  *)
(*                                                                         *)
(* Tasks: the caller of start(), the caller of stop(), one task per        *)
(* scheduled node (_run_node), and per start() one ingress pump            *)
(* (_listen_for_incoming_messages over _get_incoming_message_stream) and   *)
(* one egress pump (_listen_for_outgoing_messages over                     *)
(* _get_outgoing_message_stream).                                          *)
(*                                                                         *)
(* Atomicity: a task runs from one blocking operation to the next.  The    *)
(* blocking operations are recv() on a per-node channel, recv() on the     *)
(* bus, and send()/recv() on the unbuffered stop channel.  send() on a     *)
(* per-node channel never blocks (chan(-1), _make_channel) and is not a    *)
(* suspension point.  Between two blocking operations any other task may   *)
(* run.                                                                    *)
(*                                                                         *)
(* The registry maps are Python 2 dicts.  A dict iterator remembers the    *)
(* dict's size when it is created; every next() on it first compares the   *)
(* dict's current size with the remembered one and raises RuntimeError     *)
(* ("dictionary changed size during iteration") when they differ.  The     *)
(* order of iteration is arbitrary: next() yields any key not yet yielded. *)
(*                                                                         *)
(* Specifications: Spec and FairSpec are the scheduler with its tasks,     *)
(* started and stopped once; CycleSpec is the scheduler started again      *)
(* after a stop; RegistrySpec is the registry methods called directly on   *)
(* a scheduler that runs nothing; IdSpec is _get_node_id; NodeSpec is one  *)
(* node activated directly by its caller, next to the same node built by   *)
(* currying; ScenarioSpec is one node on a started scheduler that is not   *)
(* stopped, under fairness; ResetSpec is a scheduler run through one       *)
(* start() and stop() and then reset; DrainSpec is one node descheduled    *)
(* by a direct call while the pumps run; FirstStartSpec is ScenarioSpec    *)
(* with reset() callable before the node is scheduled; OrderSpec is any    *)
(* nodes on a started scheduler that is not stopped.                       *)
(***************************************************************************)
EXTENDS Integers, Sequences, FiniteSets, TLC

\* ---------------------------------------------------------------- bounds
MaxNodes == 2      \* calls of schedule_node
MaxPublish == 2    \* messages the bus ever hands to the scheduler
MaxMsg == 2        \* bus payloads are 1..MaxMsg
MaxStarts == 2     \* calls of start() on one scheduler (CycleSpec)
MaxCalls == 3      \* direct calls of registry methods (RegistrySpec)
MaxClock == 1      \* readings of the clock are 0..MaxClock (IdSpec)
MaxIds == 3        \* calls of _get_node_id (IdSpec)
MaxRand == 1       \* random parts of a uuid are 0..MaxRand (IdSpec)
MaxActs == 4       \* activations of the node of NodeSpec
MaxNodeMsg == 3    \* messages sent to that node are 1..MaxNodeMsg

\* ------------------------------------------------------------- constants
\* nodes.py:9: the sentinel, a value no payload and no result equals
STOP == 0
\* the topic names nodes may declare
RecvTopics == {"R1", "R2"}
SendTopics == {"S1", "S2"}
Msg == 1..MaxMsg
\* Every node is built with the step function x -> x + 2 (f.add(2) of the
\* test fixture) made partial: it raises on PoisonMsg.  A node that is never
\* handed PoisonMsg behaves as one built with a total step function.
PoisonMsg == MaxMsg
NoTopic == "none"
NoChan == 0

\* schedulers.py:84: deschedule_node(self, topics, node_id) has 3 parameters
DescheduleParams == 3
\* schedulers.py:103: self.deschedule_node(self, topics, node_id) passes the
\* bound self and 3 more arguments
DescheduleArgsInRunNode == 4

VARIABLES
    _scheduler_should_run,      \* _scheduler_should_run
    _topic_node_id_receivers,    \* _topic_node_id_receivers: topic -> (node id -> channel)
    _topic_node_id_senders,      \* _topic_node_id_senders:   topic -> (node id -> channel)
    chan,         \* contents of every channel made by _make_channel
    _stop_channel,     \* _stop_channel: number of _topic_node_id_senders blocked in send()
    nodes,        \* the node tasks, indexed by node id
    starter,      \* the caller of start()
    stopper,      \* the caller of stop()
    ingress,      \* the ingress pump tasks, one per start()
    egress,       \* the egress pump tasks, one per start()
    busIn,        \* message_bus[topic]: messages waiting for recv()
    busOut,       \* message_bus[topic]: messages given to send()
    nPub,         \* messages published to the bus by the outside so far
    call,         \* the last direct call of a registry method, and its outcome
    clock,        \* the time uuid1() reads
    _last_timestamp,   \* uuid._last_timestamp, the timestamp of the last uuid1()
    ids,          \* the ids _get_node_id has returned so far
    adder,        \* a node activated directly by its caller (NodeSpec)
    curried,      \* the same node built in two steps, activated alongside
    stop_channels \* stop channels made so far; _stop_channel is the last

vars == <<_scheduler_should_run, _topic_node_id_receivers, _topic_node_id_senders, chan, _stop_channel, nodes, starter,
          stopper, ingress, egress, busIn, busOut, nPub, call,
          clock, _last_timestamp, ids, adder, curried, stop_channels>>
\* the state of the specifications of single methods
unitVars == <<clock, _last_timestamp, ids, adder, curried, stop_channels>>

\* ------------------------------------------------------------ dict helpers
EmptyDict == <<>>
Put(d, k, v) == [x \in (DOMAIN d) \cup {k} |-> IF x = k THEN v ELSE d[x]]
Drop(d, k) == [x \in (DOMAIN d) \ {k} |-> d[x]]
Values(d) == {d[k] : k \in DOMAIN d}
Size(d) == Cardinality(DOMAIN d)
\* defaultdict.__getitem__: the value, or the default the dict would insert
GetOrDefault(d, k, default) == IF k \in DOMAIN d THEN d[k] ELSE default

\* ------------------------------------------------------------------ nodes
\* the value next() sends into the generator; f.add(2) raises on it
None == -1
\* nodes.py:26-30, the step function applied by the generator
Raises(message) == message = PoisonMsg \/ message = None
func(message) == message + 2

NoTopics == <<NoTopic, NoTopic>>

\* What an activation gives its caller: the state of the generator after
\* it, the outcome ("YieldTopics", "Yield", "StopIteration", "Raise" for an
\* exception of func, "TypeError" for a value sent to a generator that has
\* not started), the value or the topics yielded, and whether func was
\* invoked.
Activation(gen, out, val, topics, called) ==
    [gen |-> gen, out |-> out, val |-> val, topics |-> topics, called |-> called]

\* node_send without the test for STOP of nodes.py:28
NodeSendIgnoresStop(gen, topics, message) ==
    IF gen = "Stopped"
    THEN Activation("Stopped", "StopIteration", 0, NoTopics, FALSE)
    ELSE IF gen = "AwaitingTopics"
    THEN IF message = None
         THEN Activation("Running", "YieldTopics", 0, topics, FALSE)
         ELSE Activation("AwaitingTopics", "TypeError", 0, NoTopics, FALSE)
    ELSE IF Raises(message) \/ message = STOP
    THEN Activation("Stopped", "Raise", 0, NoTopics, TRUE)
    ELSE Activation("Running", "Yield", func(message), NoTopics, TRUE)

\* node_send with the generator surviving an exception of func
NodeSendSurvivesRaise(gen, topics, message) ==
    IF gen = "Stopped"
    THEN Activation("Stopped", "StopIteration", 0, NoTopics, FALSE)
    ELSE IF gen = "AwaitingTopics"
    THEN IF message = None
         THEN Activation("Running", "YieldTopics", 0, topics, FALSE)
         ELSE Activation("AwaitingTopics", "TypeError", 0, NoTopics, FALSE)
    ELSE IF message = STOP
    THEN Activation("Stopped", "StopIteration", 0, NoTopics, FALSE)
    ELSE IF Raises(message)
    THEN Activation("Running", "Raise", 0, NoTopics, TRUE)
    ELSE Activation("Running", "Yield", func(message), NoTopics, TRUE)

\* node_send invoking func on the first activation
NodeSendStepsOnFirst(gen, topics, message) ==
    IF gen = "Stopped"
    THEN Activation("Stopped", "StopIteration", 0, NoTopics, FALSE)
    ELSE IF gen = "AwaitingTopics"
    THEN IF message = None
         THEN Activation("Running", "YieldTopics", 0, topics, TRUE)
         ELSE Activation("AwaitingTopics", "TypeError", 0, NoTopics, FALSE)
    ELSE IF message = STOP
    THEN Activation("Stopped", "StopIteration", 0, NoTopics, FALSE)
    ELSE IF Raises(message)
    THEN Activation("Stopped", "Raise", 0, NoTopics, TRUE)
    ELSE Activation("Running", "Yield", func(message), NoTopics, TRUE)

\* node_send yielding the message it was sent, func not applied to it
NodeSendYieldsMessage(gen, topics, message) ==
    IF gen = "Stopped"
    THEN Activation("Stopped", "StopIteration", 0, NoTopics, FALSE)
    ELSE IF gen = "AwaitingTopics"
    THEN IF message = None
         THEN Activation("Running", "YieldTopics", 0, topics, FALSE)
         ELSE Activation("AwaitingTopics", "TypeError", 0, NoTopics, FALSE)
    ELSE IF message = STOP
    THEN Activation("Stopped", "StopIteration", 0, NoTopics, FALSE)
    ELSE IF Raises(message)
    THEN Activation("Stopped", "Raise", 0, NoTopics, TRUE)
    ELSE Activation("Running", "Yield", message, NoTopics, TRUE)

\* nodes.py:26-30: the generator resumed by send(message) on a node built
\* with topics.  Not yet started (line 26 not reached): send(None) runs to
\* the first yield, which gives the topics; any other value is a TypeError
\* of Python and the generator stays as it is.  Suspended at a yield: STOP
\* breaks the loop and the generator returns (StopIteration); otherwise func
\* is invoked and its result yielded.  A generator that has returned, or
\* has let an exception of func out, is finished: StopIteration ever after.
node_send(gen, topics, message) ==
    IF gen = "Stopped"
    THEN Activation("Stopped", "StopIteration", 0, NoTopics, FALSE)
    ELSE IF gen = "AwaitingTopics"
    THEN IF message = None
         THEN Activation("Running", "YieldTopics", 0, topics, FALSE)
         ELSE Activation("AwaitingTopics", "TypeError", 0, NoTopics, FALSE)
    ELSE IF message = STOP
    THEN Activation("Stopped", "StopIteration", 0, NoTopics, FALSE)
    ELSE IF Raises(message)
    THEN Activation("Stopped", "Raise", 0, NoTopics, TRUE)
    ELSE Activation("Running", "Yield", func(message), NoTopics, TRUE)

\* next() is send(None)
node_next(gen, topics) == node_send(gen, topics, None)

\* ------------------------------------------------------------- node ids
\* uuid._last_timestamp is None until the first uuid1()
NoTimestamp == -1
\* schedulers.py:71, get_hex(): a UUID is printed as 32 hexadecimal digits
HexLen == 32

\* '%032x' % int, to n digits: the digits of v in base 16, most significant
\* first, padded with zeros
RECURSIVE get_hex_digits(_, _)
get_hex_digits(v, n) ==
    IF n = 0 THEN <<>> ELSE Append(get_hex_digits(v \div 16, n - 1), v % 16)
get_hex(v) == get_hex_digits(v, HexLen)

\* uuid1 taking the clock reading as it is
Uuid1Timestamp(now, last) == now

\* uuid.uuid1(), the timestamp it uses: the clock reading, or one more than
\* the timestamp of the last call when the clock has not moved past it
uuid1_timestamp(now, last) ==
    IF last # NoTimestamp /\ now <= last THEN last + 1 ELSE now

\* the 128-bit value of a UUID made of a timestamp and random bits
uuid_int(timestamp, random) == timestamp * (MaxRand + 1) + random

\* schedulers.py:71: the two hexadecimal digests, concatenated
_get_node_id(u1, u4) == get_hex(u1) \o get_hex(u4)

\* no registry method has been called directly
\* Ghost record of a direct call: the method and its arguments, whether it
\* raised, what it returned, the method and arguments of the call before it,
\* and the two registry maps as they were when it was made.
NoCall == [op |-> "none", topics |-> <<NoTopic, NoTopic>>, node_id |-> 0,
           raised |-> FALSE, ret |-> <<NoChan, NoChan>>, seq |-> 0,
           prev |-> <<"none", <<NoTopic, NoTopic>>, 0>>,
           rcv0 |-> EmptyDict, snd0 |-> EmptyDict]

\* ------------------------------------------------------------------- init
\* nodes.py:15-16: a node built with topics, not yet activated.  Ghost
\* fields: acts and calls count the activations and the invocations of
\* func; sent, before and last are the message, the generator's state
\* before, and the outcome of the last activation; by is the outcome that
\* finished the generator.
NewNode(topics) ==
    [kind |-> "generator", args |-> <<>>,
     topics |-> topics, gen |-> "AwaitingTopics", acts |-> 0, calls |-> 0,
     sent |-> None, before |-> "AwaitingTopics", by |-> "none",
     yields |-> {},
     last |-> Activation("AwaitingTopics", "none", 0, NoTopics, FALSE)]

\* ------------------------------------------------------ currying (funk.py)
\* nodes.py:15-16: node is declared with two positional arguments, none of
\* them with a default (funk.py:70-85, get_positional_arg_count)
NodeArgCount == 2
\* the step function of the test fixtures (test_node.py:21)
Step == "f.add(2)"

\* nodes.py:16-30 called as a plain function: with its two arguments it
\* makes the generator, not yet started; with any other number of
\* arguments the call is a TypeError of Python
node_generator(args) ==
    IF Len(args) = NodeArgCount
    THEN NewNode(args[1])
    ELSE [NewNode(NoTopics) EXCEPT !.kind = "TypeError"]

\* functools.partial(func, *args), as funk.py:109 makes it
partial(args) == [NewNode(NoTopics) EXCEPT !.kind = "partial", !.args = args]

\* curry calling through only when it has more arguments than expected
CurryOffByOne(expected_arg_count, args) ==
    IF expected_arg_count # 0 /\ Len(args) > expected_arg_count
    THEN [through |-> TRUE, args |-> args]
    ELSE [through |-> FALSE, args |-> args]

\* funk.py:104-109, the wrapper curry returns, called with args: whether it
\* calls func through (line 107) or makes a partial of it (line 109)
curry(expected_arg_count, args) ==
    IF expected_arg_count # 0 /\ Len(args) >= expected_arg_count
    THEN [through |-> TRUE, args |-> args]
    ELSE [through |-> FALSE, args |-> args]

\* nodes.py:15, the decorated node called with args
node(args) ==
    LET wrapper == curry(NodeArgCount, args)
    IN  IF wrapper.through THEN node_generator(wrapper.args)
        ELSE partial(wrapper.args)

\* a partial called with more arguments: func called with all of them
\* (the partial is of func itself, not of the wrapper)
partial_call(p, more) == node_generator(p.args \o more)

\* test_node.py:21: node(topics, step)
BuiltAtOnce(topics) == node(<<topics, Step>>)
\* test_node.py:38-39: topic_node = node(topics); topic_node(step)
BuiltInTwoSteps(topics) == partial_call(node(<<topics>>), <<Step>>)

\* schedulers.py:18-33 (__init__, reset), and the library state
SchedulerInit ==
    /\ _scheduler_should_run = TRUE
    /\ _topic_node_id_receivers = EmptyDict
    /\ _topic_node_id_senders = EmptyDict
    /\ chan = <<>>
    /\ _stop_channel = 0
    /\ stop_channels = 1
    /\ nodes = <<>>
    /\ starter = "idle"
    /\ stopper = "idle"
    /\ ingress = <<>>
    /\ egress = <<>>
    /\ busIn = [t \in RecvTopics |-> <<>>]
    /\ busOut = [t \in SendTopics |-> <<>>]
    /\ nPub = 0
    /\ call = NoCall
    /\ clock = 0
    /\ _last_timestamp = NoTimestamp
    /\ ids = <<>>

\* a fresh scheduler, and a node built as in the test fixtures
Init ==
    /\ SchedulerInit
    /\ adder = BuiltAtOnce(<<"R1", "S1">>)
    /\ curried = BuiltInTwoSteps(<<"R1", "S1">>)

\* -------------------------------------------------------------- registry
\* schedulers.py:73-77: defaultdict lookups; a missing topic and a missing
\* node id are inserted, the channel made by _make_channel (a fresh, empty
\* channel whose id is the next index of chan).
\* a lookup that takes every slot for missing, and so makes a channel anew
ReceiverSlotAlwaysMissing(rcv, topic, node_id) == NoChan

ReceiverSlot(rcv, topic, node_id) ==
    GetOrDefault(GetOrDefault(rcv, topic, EmptyDict), node_id, NoChan)

\* _get_channels_from_topics keeping one slot per topic, whatever the node
\* id: a second node of a topic finds the slot of the first
GetChannelsFromTopicsOneSlotPerTopic(topics, node_id) ==
    LET rOld == ReceiverSlot(_topic_node_id_receivers, topics[1], 1)
        chan1 == IF rOld = NoChan THEN Append(chan, <<>>) ELSE chan
        rc == IF rOld = NoChan THEN Len(chan1) ELSE rOld
        sOld == ReceiverSlot(_topic_node_id_senders, topics[2], 1)
        chan2 == IF sOld = NoChan THEN Append(chan1, <<>>) ELSE chan1
        sc == IF sOld = NoChan THEN Len(chan2) ELSE sOld
    IN  [rc |-> rc, sc |-> sc, chan |-> chan2,
         rcv |-> Put(_topic_node_id_receivers, topics[1],
                           Put(GetOrDefault(_topic_node_id_receivers, topics[1], EmptyDict), 1, rc)),
         snd |-> Put(_topic_node_id_senders, topics[2],
                         Put(GetOrDefault(_topic_node_id_senders, topics[2], EmptyDict), 1, sc))]

\* The registry and the channel store after _get_channels_from_topics.
_get_channels_from_topics(topics, node_id) ==
    LET rOld == ReceiverSlot(_topic_node_id_receivers, topics[1], node_id)
        chan1 == IF rOld = NoChan THEN Append(chan, <<>>) ELSE chan
        rc == IF rOld = NoChan THEN Len(chan1) ELSE rOld
        sOld == ReceiverSlot(_topic_node_id_senders, topics[2], node_id)
        chan2 == IF sOld = NoChan THEN Append(chan1, <<>>) ELSE chan1
        sc == IF sOld = NoChan THEN Len(chan2) ELSE sOld
    IN  [rc |-> rc, sc |-> sc, chan |-> chan2,
         rcv |-> Put(_topic_node_id_receivers, topics[1],
                           Put(GetOrDefault(_topic_node_id_receivers, topics[1], EmptyDict), node_id, rc)),
         snd |-> Put(_topic_node_id_senders, topics[2],
                         Put(GetOrDefault(_topic_node_id_senders, topics[2], EmptyDict), node_id, sc))]

\* schedulers.py:84-88: pop(node_id, None) from the two topic dicts; the
\* lookup of the topic is a defaultdict lookup.
\* dict.pop(k) without a default: KeyError when k is absent
PopNoDefault(d, k) == [d |-> Drop(d, k), raised |-> k \notin DOMAIN d]

\* schedulers.py:87-88: dict.pop(node_id, None); with a default, pop returns
\* it for an absent key and never raises
pop(d, k) == [d |-> Drop(d, k), raised |-> FALSE]

\* deschedule_node removing the topic's key along with the node id
DescheduleNodeDropsTopic(reg, topic, node_id) ==
    [reg |-> Drop(reg, topic), raised |-> FALSE]

\* deschedule_node emptying the topic's dict instead of popping one id
DescheduleNodeClearsTopic(reg, topic, node_id) ==
    [reg |-> Put(reg, topic, EmptyDict), raised |-> FALSE]

\* One line of deschedule_node: the map after it, and whether it raised
deschedule_node(reg, topic, node_id) ==
    LET popped == pop(GetOrDefault(reg, topic, EmptyDict), node_id)
    IN  [reg |-> Put(reg, topic, popped.d), raised |-> popped.raised]

\* schedulers.py:103: the call made when the loop of _run_node is left.  It
\* passes one argument more than deschedule_node takes: Python raises
\* TypeError before the body runs, and the task ends with that exception.
_run_node_exit(rcv, snd, topics, node_id) ==
    IF DescheduleArgsInRunNode = DescheduleParams
    THEN [pc |-> "done",
          rcv |-> deschedule_node(rcv, topics[1], node_id).reg,
          snd |-> deschedule_node(snd, topics[2], node_id).reg]
    ELSE [pc |-> "dead", rcv |-> rcv, snd |-> snd]

\* ------------------------------------------------------------- node tasks
\* schedulers.py:52-59: the task is launched, nothing of it has run yet; the
\* fresh id of line 55 is the node's index in nodes.
\* Topic names are interchangeable (the scheduler only compares them), so
\* the first node scheduled is taken to declare ("R1", "S1").
\* Ghost fields: reported counts the fault reports of line 100; why records
\* how the loop was left ("stop": STOP taken, "fault": the step raised,
\* "flag": the run flag was seen false); ret is the id returned by line 59.
\* schedule_node returning after the node's first activation and channel
\* resolution instead of right after launching the task
ScheduleNodeRunsFirstActivation(topics) ==
    /\ Len(nodes) < MaxNodes
    /\ (Len(nodes) = 0 => topics = <<"R1", "S1">>)
    /\ LET got == _get_channels_from_topics(topics, Len(nodes) + 1)
       IN  /\ nodes' = Append(nodes, [pc |-> "recv", topics |-> topics,
                                      gen |-> node_next("AwaitingTopics", topics).gen,
                                      rc |-> got.rc, sc |-> got.sc,
                                      reported |-> 0, why |-> "none",
                                      ret |-> Len(nodes) + 1])
           /\ _topic_node_id_receivers' = got.rcv
           /\ _topic_node_id_senders' = got.snd
           /\ chan' = got.chan
    /\ UNCHANGED <<unitVars, call, _scheduler_should_run, _stop_channel, starter, stopper,
                   ingress, egress, busIn, busOut, nPub>>

schedule_node(topics) ==
    /\ Len(nodes) < MaxNodes
    /\ (Len(nodes) = 0 => topics = <<"R1", "S1">>)
    /\ nodes' = Append(nodes, [pc |-> "spawned", topics |-> topics,
                               gen |-> "AwaitingTopics", rc |-> NoChan, sc |-> NoChan,
                               reported |-> 0, why |-> "none",
                               ret |-> Len(nodes) + 1])
    /\ UNCHANGED <<unitVars, call, _scheduler_should_run, _topic_node_id_receivers, _topic_node_id_senders, chan, _stop_channel, starter, stopper,
                   ingress, egress, busIn, busOut, nPub>>

\* _run_node_first entering the loop without the test of the run flag
RunNodeFirstEntersLoop(n) ==
    /\ n \in 1..Len(nodes)
    /\ nodes[n].pc = "spawned"
    /\ LET act == node_next(nodes[n].gen, nodes[n].topics)
           got == _get_channels_from_topics(act.topics, n)
           exit == _run_node_exit(got.rcv, got.snd, act.topics, n)
       IN  /\ chan' = got.chan
           /\ IF TRUE
              THEN /\ nodes' = [nodes EXCEPT ![n].pc = "recv", ![n].gen = act.gen,
                                             ![n].rc = got.rc, ![n].sc = got.sc]
                   /\ _topic_node_id_receivers' = got.rcv
                   /\ _topic_node_id_senders' = got.snd
              ELSE /\ nodes' = [nodes EXCEPT ![n].pc = exit.pc, ![n].gen = act.gen,
                                             ![n].rc = got.rc, ![n].sc = got.sc,
                                             ![n].why = "flag"]
                   /\ _topic_node_id_receivers' = exit.rcv
                   /\ _topic_node_id_senders' = exit.snd
    /\ UNCHANGED <<unitVars, call, _scheduler_should_run, _stop_channel, starter, stopper, ingress, egress,
                   busIn, busOut, nPub>>

\* schedulers.py:93-96 (and 103 when the flag is already false): first
\* activation, channel resolution, first test of the run flag.
_run_node_first(n) ==
    /\ n \in 1..Len(nodes)
    /\ nodes[n].pc = "spawned"
    /\ LET act == node_next(nodes[n].gen, nodes[n].topics)
           got == _get_channels_from_topics(act.topics, n)
           exit == _run_node_exit(got.rcv, got.snd, act.topics, n)
       IN  /\ chan' = got.chan
           /\ IF _scheduler_should_run
              THEN /\ nodes' = [nodes EXCEPT ![n].pc = "recv", ![n].gen = act.gen,
                                             ![n].rc = got.rc, ![n].sc = got.sc]
                   /\ _topic_node_id_receivers' = got.rcv
                   /\ _topic_node_id_senders' = got.snd
              ELSE /\ nodes' = [nodes EXCEPT ![n].pc = exit.pc, ![n].gen = act.gen,
                                             ![n].rc = got.rc, ![n].sc = got.sc,
                                             ![n].why = "flag"]
                   /\ _topic_node_id_receivers' = exit.rcv
                   /\ _topic_node_id_senders' = exit.snd
    /\ UNCHANGED <<unitVars, call, _scheduler_should_run, _stop_channel, starter, stopper, ingress, egress,
                   busIn, busOut, nPub>>

\* _run_node_step sending the result of the activation twice
RunNodeStepSendsTwice(n) ==
    /\ n \in 1..Len(nodes)
    /\ nodes[n].pc = "recv"
    /\ chan[nodes[n].rc] # <<>>
    /\ LET message == Head(chan[nodes[n].rc])
           act == node_send(nodes[n].gen, nodes[n].topics, message)
           taken == [chan EXCEPT ![nodes[n].rc] = Tail(@)]
           exit == _run_node_exit(_topic_node_id_receivers, _topic_node_id_senders, nodes[n].topics, n)
       IN  IF act.out = "Yield"
           THEN /\ chan' = [taken EXCEPT ![nodes[n].sc] = Append(Append(@, act.val), act.val)]
                /\ IF _scheduler_should_run
                   THEN /\ nodes' = [nodes EXCEPT ![n].gen = act.gen]
                        /\ _topic_node_id_receivers' = _topic_node_id_receivers
                        /\ _topic_node_id_senders' = _topic_node_id_senders
                   ELSE /\ nodes' = [nodes EXCEPT ![n].gen = act.gen, ![n].pc = exit.pc,
                                                  ![n].why = "flag"]
                        /\ _topic_node_id_receivers' = exit.rcv
                        /\ _topic_node_id_senders' = exit.snd
           ELSE /\ chan' = taken
                /\ nodes' = [nodes EXCEPT ![n].gen = act.gen, ![n].pc = exit.pc,
                                          ![n].reported = @ + 1,
                                          ![n].why = IF act.out = "Raise"
                                                     THEN "fault" ELSE "stop"]
                /\ _topic_node_id_receivers' = exit.rcv
                /\ _topic_node_id_senders' = exit.snd
    /\ UNCHANGED <<unitVars, call, _scheduler_should_run, _stop_channel, starter, stopper, ingress, egress,
                   busIn, busOut, nPub>>

\* _run_node_step reporting exceptions of the step function only, the end
\* of the generator on STOP leaving the loop without a report
RunNodeStepStopUnreported(n) ==
    /\ n \in 1..Len(nodes)
    /\ nodes[n].pc = "recv"
    /\ chan[nodes[n].rc] # <<>>
    /\ LET message == Head(chan[nodes[n].rc])
           act == node_send(nodes[n].gen, nodes[n].topics, message)
           taken == [chan EXCEPT ![nodes[n].rc] = Tail(@)]
           exit == _run_node_exit(_topic_node_id_receivers, _topic_node_id_senders, nodes[n].topics, n)
       IN  IF act.out = "Yield"
           THEN /\ chan' = [taken EXCEPT ![nodes[n].sc] = Append(@, act.val)]
                /\ IF _scheduler_should_run
                   THEN /\ nodes' = [nodes EXCEPT ![n].gen = act.gen]
                        /\ _topic_node_id_receivers' = _topic_node_id_receivers
                        /\ _topic_node_id_senders' = _topic_node_id_senders
                   ELSE /\ nodes' = [nodes EXCEPT ![n].gen = act.gen, ![n].pc = exit.pc,
                                                  ![n].why = "flag"]
                        /\ _topic_node_id_receivers' = exit.rcv
                        /\ _topic_node_id_senders' = exit.snd
           ELSE /\ chan' = taken
                /\ nodes' = [nodes EXCEPT ![n].gen = act.gen, ![n].pc = exit.pc,
                                          ![n].reported = IF act.out = "Raise"
                                                          THEN @ + 1 ELSE @,
                                          ![n].why = IF act.out = "Raise"
                                                     THEN "fault" ELSE "stop"]
                /\ _topic_node_id_receivers' = exit.rcv
                /\ _topic_node_id_senders' = exit.snd
    /\ UNCHANGED <<unitVars, call, _scheduler_should_run, _stop_channel, starter, stopper, ingress, egress,
                   busIn, busOut, nPub>>

\* schedulers.py:79-82 and 96-103: one receive/activate/send step, then the
\* test of the run flag; on an exception the report, the break and line 103.
_run_node_step(n) ==
    /\ n \in 1..Len(nodes)
    /\ nodes[n].pc = "recv"
    /\ chan[nodes[n].rc] # <<>>
    /\ LET message == Head(chan[nodes[n].rc])
           act == node_send(nodes[n].gen, nodes[n].topics, message)
           taken == [chan EXCEPT ![nodes[n].rc] = Tail(@)]
           exit == _run_node_exit(_topic_node_id_receivers, _topic_node_id_senders, nodes[n].topics, n)
       IN  IF act.out = "Yield"
           THEN /\ chan' = [taken EXCEPT ![nodes[n].sc] = Append(@, act.val)]
                /\ IF _scheduler_should_run
                   THEN /\ nodes' = [nodes EXCEPT ![n].gen = act.gen]
                        /\ _topic_node_id_receivers' = _topic_node_id_receivers
                        /\ _topic_node_id_senders' = _topic_node_id_senders
                   ELSE /\ nodes' = [nodes EXCEPT ![n].gen = act.gen, ![n].pc = exit.pc,
                                                  ![n].why = "flag"]
                        /\ _topic_node_id_receivers' = exit.rcv
                        /\ _topic_node_id_senders' = exit.snd
           ELSE /\ chan' = taken
                /\ nodes' = [nodes EXCEPT ![n].gen = act.gen, ![n].pc = exit.pc,
                                          ![n].reported = @ + 1,
                                          ![n].why = IF act.out = "Raise"
                                                     THEN "fault" ELSE "stop"]
                /\ _topic_node_id_receivers' = exit.rcv
                /\ _topic_node_id_senders' = exit.snd
    /\ UNCHANGED <<unitVars, call, _scheduler_should_run, _stop_channel, starter, stopper, ingress, egress,
                   busIn, busOut, nPub>>

\* ------------------------------------------------------- start() and stop()
NewIngress == [pc |-> "while", topic |-> NoTopic, size |-> 0, todo |-> {}]
NewEgress == [pc |-> "while", topic |-> NoTopic, ch |-> NoChan,
              osize |-> 0, otodo |-> {}, isize |-> 0, itodo |-> {}]

\* start launching the ingress pump only
StartCallOnePump ==
    /\ starter = "idle"
    /\ _scheduler_should_run' = TRUE
    /\ ingress' = Append(ingress, NewIngress)
    /\ starter' = "waiting"
    /\ UNCHANGED <<unitVars, call, _topic_node_id_receivers, _topic_node_id_senders, chan, _stop_channel, nodes, stopper, egress,
                   busIn, busOut, nPub>>

\* schedulers.py:38-41: the flag is set, the two pump tasks are launched
\* (ingress, then egress), the caller blocks in _stop_channel.recv()
start ==
    /\ starter = "idle"
    /\ _scheduler_should_run' = TRUE
    /\ ingress' = Append(ingress, NewIngress)
    /\ egress' = Append(egress, NewEgress)
    /\ starter' = "waiting"
    /\ UNCHANGED <<unitVars, call, _topic_node_id_receivers, _topic_node_id_senders, chan, _stop_channel, nodes, stopper,
                   busIn, busOut, nPub>>

\* schedulers.py:41 meeting schedulers.py:50 on the unbuffered channel
start_recv ==
    /\ starter = "waiting"
    /\ _stop_channel > 0
    /\ _stop_channel' = _stop_channel - 1
    /\ starter' = "woken"
    /\ stopper' = "done"
    /\ UNCHANGED <<unitVars, call, _scheduler_should_run, _topic_node_id_receivers, _topic_node_id_senders, chan, nodes, ingress, egress,
                   busIn, busOut, nPub>>

\* schedulers.py:42: the caller of start() runs again and clears the flag
start_return ==
    /\ starter = "woken"
    /\ _scheduler_should_run' = FALSE
    /\ starter' = "returned"
    /\ UNCHANGED <<unitVars, call, _topic_node_id_receivers, _topic_node_id_senders, chan, _stop_channel, nodes, stopper, ingress,
                   egress, busIn, busOut, nPub>>

\* The number of (topic, node id) slots of the receiving map holding channel c
ReceiverSlotsOf(c) ==
    Cardinality({tn \in {<<t, n>> : t \in DOMAIN _topic_node_id_receivers, n \in 1..Len(nodes)} :
                    /\ tn[2] \in DOMAIN _topic_node_id_receivers[tn[1]]
                    /\ _topic_node_id_receivers[tn[1]][tn[2]] = c})

\* s with x appended k times
RECURSIVE AppendTimes(_, _, _)
AppendTimes(s, x, k) == IF k = 0 THEN s ELSE AppendTimes(Append(s, x), x, k - 1)

\* stop leaving the loop over the topics after the first topic
StopCallFirstTopicOnly ==
    /\ stopper = "idle"
    /\ starter = "waiting"
    /\ chan' = [c \in DOMAIN chan |->
                  IF /\ DOMAIN _topic_node_id_receivers # {}
                     /\ c \in Values(_topic_node_id_receivers[CHOOSE t \in DOMAIN _topic_node_id_receivers : TRUE])
                  THEN Append(chan[c], STOP) ELSE chan[c]]
    /\ _stop_channel' = _stop_channel + 1
    /\ stopper' = "signal"
    /\ UNCHANGED <<unitVars, call, _scheduler_should_run, _topic_node_id_receivers, _topic_node_id_senders, nodes, starter, ingress, egress,
                   busIn, busOut, nPub>>

\* schedulers.py:47-50: STOP to every channel of every receiving topic, then
\* the caller blocks in _stop_channel.send(None).  Called on a started
\* scheduler (the documented use).
stop ==
    /\ stopper = "idle"
    /\ starter = "waiting"
    /\ chan' = [c \in DOMAIN chan |-> AppendTimes(chan[c], STOP, ReceiverSlotsOf(c))]
    /\ _stop_channel' = _stop_channel + 1
    /\ stopper' = "signal"
    /\ UNCHANGED <<unitVars, call, _scheduler_should_run, _topic_node_id_receivers, _topic_node_id_senders, nodes, starter, ingress, egress,
                   busIn, busOut, nPub>>

\* -------------------------------------------------------------------- bus
\* The outside publishes m on topic t: message_bus[t].recv() will return it
Publish(t, m) ==
    /\ nPub < MaxPublish
    /\ busIn' = [busIn EXCEPT ![t] = Append(@, m)]
    /\ nPub' = nPub + 1
    /\ UNCHANGED <<unitVars, call, _scheduler_should_run, _topic_node_id_receivers, _topic_node_id_senders, chan, _stop_channel, nodes, starter,
                   stopper, ingress, egress, busOut>>

\* ----------------------------------------------------------- ingress pump
CrashedIngress == [pc |-> "crashed", topic |-> NoTopic, size |-> 0, todo |-> {}]
DoneIngress == [pc |-> "done", topic |-> NoTopic, size |-> 0, todo |-> {}]

\* schedulers.py:106-108: the while test, a new iterator over the keys of
\* the receiving map, its first next(), and the pump blocks in the bus
\* recv() for that topic.  With no topic known the loop spins.
_get_incoming_message_stream ==
    IF ~_scheduler_should_run THEN {DoneIngress}
    ELSE IF DOMAIN _topic_node_id_receivers = {} THEN {NewIngress}
    ELSE {[pc |-> "busrecv", topic |-> t, size |-> Size(_topic_node_id_receivers),
           todo |-> (DOMAIN _topic_node_id_receivers) \ {t}] : t \in DOMAIN _topic_node_id_receivers}

\* schedulers.py:107: next() on the live iterator of pump record p
_get_incoming_message_stream_next(p) ==
    IF Size(_topic_node_id_receivers) # p.size THEN {CrashedIngress}
    ELSE IF p.todo # {}
    THEN {[pc |-> "busrecv", topic |-> t, size |-> p.size, todo |-> p.todo \ {t}] :
             t \in p.todo}
    ELSE _get_incoming_message_stream

\* _receive_incoming_message putting the message in front of what waits
ReceiveIncomingMessagePrepends(topic, message) ==
    LET listeners == GetOrDefault(_topic_node_id_receivers, topic, EmptyDict)
    IN  [c \in DOMAIN chan |-> IF c \in Values(listeners)
                               THEN <<message>> \o chan[c] ELSE chan[c]]

\* _receive_incoming_message leaving the loop after the first listener
ReceiveIncomingMessageFirstOnly(topic, message) ==
    LET listeners == GetOrDefault(_topic_node_id_receivers, topic, EmptyDict)
        first == IF DOMAIN listeners = {} THEN NoChan
                 ELSE listeners[CHOOSE n \in DOMAIN listeners :
                                   \A o \in DOMAIN listeners : n <= o]
    IN  [c \in DOMAIN chan |-> IF c = first THEN Append(chan[c], message) ELSE chan[c]]

\* schedulers.py:110-112: one send per (node id, channel) item of the topic
_receive_incoming_message(topic, message) ==
    LET listeners == GetOrDefault(_topic_node_id_receivers, topic, EmptyDict)
        copies(c) == Cardinality({n \in DOMAIN listeners : listeners[n] = c})
    IN  [c \in DOMAIN chan |-> AppendTimes(chan[c], message, copies(c))]

\* the pump task is scheduled for the first time
IngressWhile(k) ==
    /\ k \in 1..Len(ingress)
    /\ ingress[k].pc = "while"
    /\ \E p \in _get_incoming_message_stream : ingress' = [ingress EXCEPT ![k] = p]
    /\ UNCHANGED <<unitVars, call, _scheduler_should_run, _topic_node_id_receivers, _topic_node_id_senders, chan, _stop_channel, nodes, starter,
                   stopper, egress, busIn, busOut, nPub>>

\* schedulers.py:108, 114-116, 107: the bus recv() returns, the message is
\* fanned out, the generator is resumed and blocks in the next bus recv()
IngressRecv(k) ==
    /\ k \in 1..Len(ingress)
    /\ ingress[k].pc = "busrecv"
    /\ busIn[ingress[k].topic] # <<>>
    /\ busIn' = [busIn EXCEPT ![ingress[k].topic] = Tail(@)]
    /\ chan' = _receive_incoming_message(ingress[k].topic, Head(busIn[ingress[k].topic]))
    /\ \E p \in _get_incoming_message_stream_next(ingress[k]) : ingress' = [ingress EXCEPT ![k] = p]
    /\ UNCHANGED <<unitVars, call, _scheduler_should_run, _topic_node_id_receivers, _topic_node_id_senders, _stop_channel, nodes, starter,
                   stopper, egress, busOut, nPub>>

\* ------------------------------------------------------------ egress pump
CrashedEgress == [pc |-> "crashed", topic |-> NoTopic, ch |-> NoChan,
                  osize |-> 0, otodo |-> {}, isize |-> 0, itodo |-> {}]
DoneEgress == [pc |-> "done", topic |-> NoTopic, ch |-> NoChan,
               osize |-> 0, otodo |-> {}, isize |-> 0, itodo |-> {}]

\* schedulers.py:123-125: the outer iterator (size osize, topics otodo left)
\* moves on until a topic with a channel is found; the pump then blocks in
\* that channel's recv().  Topics without channel met on the way are passed.
EgressTargets(osize, otodo) ==
    LET nonEmpty == {t \in otodo : DOMAIN _topic_node_id_senders[t] # {}}
    IN  {[pc |-> "chanrecv", topic |-> t, ch |-> _topic_node_id_senders[t][n],
          osize |-> osize, otodo |-> otodo \ ({t} \cup E),
          isize |-> Size(_topic_node_id_senders[t]), itodo |-> (DOMAIN _topic_node_id_senders[t]) \ {n}] :
             <<t, n, E>> \in {x \in nonEmpty \X (1..Len(nodes)) \X SUBSET (otodo \ nonEmpty) :
                                x[2] \in DOMAIN _topic_node_id_senders[x[1]]}}

\* schedulers.py:122-125: the while test and a new pass over the sending map
_get_outgoing_message_stream ==
    IF ~_scheduler_should_run THEN {DoneEgress}
    ELSE IF EgressTargets(Size(_topic_node_id_senders), DOMAIN _topic_node_id_senders) = {} THEN {NewEgress}
    ELSE EgressTargets(Size(_topic_node_id_senders), DOMAIN _topic_node_id_senders)

\* schedulers.py:124 then 123: next() on the inner iterator of pump record
\* p, and on the outer one when the inner one is exhausted
_get_outgoing_message_stream_next(p) ==
    IF Size(_topic_node_id_senders[p.topic]) # p.isize THEN {CrashedEgress}
    ELSE IF p.itodo # {}
    THEN {[p EXCEPT !.ch = _topic_node_id_senders[p.topic][n], !.itodo = p.itodo \ {n}] : n \in p.itodo}
    ELSE IF Size(_topic_node_id_senders) # p.osize THEN {CrashedEgress}
    ELSE IF EgressTargets(p.osize, p.otodo) # {} THEN EgressTargets(p.osize, p.otodo)
    ELSE _get_outgoing_message_stream

\* the pump task is scheduled for the first time
EgressWhile(k) ==
    /\ k \in 1..Len(egress)
    /\ egress[k].pc = "while"
    /\ \E p \in _get_outgoing_message_stream : egress' = [egress EXCEPT ![k] = p]
    /\ UNCHANGED <<unitVars, call, _scheduler_should_run, _topic_node_id_receivers, _topic_node_id_senders, chan, _stop_channel, nodes, starter,
                   stopper, ingress, busIn, busOut, nPub>>

\* EgressRecv sending the message to the bus under another topic
EgressRecvOtherTopic(k) ==
    /\ k \in 1..Len(egress)
    /\ egress[k].pc = "chanrecv"
    /\ chan[egress[k].ch] # <<>>
    /\ chan' = [chan EXCEPT ![egress[k].ch] = Tail(@)]
    /\ LET other == CHOOSE t \in SendTopics : t # egress[k].topic
       IN  busOut' = [busOut EXCEPT ![other] = Append(@, Head(chan[egress[k].ch]))]
    /\ \E p \in _get_outgoing_message_stream_next(egress[k]) : egress' = [egress EXCEPT ![k] = p]
    /\ UNCHANGED <<unitVars, call, _scheduler_should_run, _topic_node_id_receivers, _topic_node_id_senders, _stop_channel, nodes, starter,
                   stopper, ingress, busIn, nPub>>

\* EgressRecv taking the newest message of the channel, not the oldest
EgressRecvTakesLast(k) ==
    /\ k \in 1..Len(egress)
    /\ egress[k].pc = "chanrecv"
    /\ chan[egress[k].ch] # <<>>
    /\ chan' = [chan EXCEPT ![egress[k].ch] = SubSeq(@, 1, Len(@) - 1)]
    /\ busOut' = [busOut EXCEPT ![egress[k].topic] =
                     Append(@, chan[egress[k].ch][Len(chan[egress[k].ch])])]
    /\ \E p \in _get_outgoing_message_stream_next(egress[k]) : egress' = [egress EXCEPT ![k] = p]
    /\ UNCHANGED <<unitVars, call, _scheduler_should_run, _topic_node_id_receivers, _topic_node_id_senders, _stop_channel, nodes, starter,
                   stopper, ingress, busIn, nPub>>

\* schedulers.py:125, 127-129, 118-119: the channel recv() returns, the
\* message is sent to the bus under the topic, the generator is resumed
EgressRecv(k) ==
    /\ k \in 1..Len(egress)
    /\ egress[k].pc = "chanrecv"
    /\ chan[egress[k].ch] # <<>>
    /\ chan' = [chan EXCEPT ![egress[k].ch] = Tail(@)]
    /\ busOut' = [busOut EXCEPT ![egress[k].topic] = Append(@, Head(chan[egress[k].ch]))]
    /\ \E p \in _get_outgoing_message_stream_next(egress[k]) : egress' = [egress EXCEPT ![k] = p]
    /\ UNCHANGED <<unitVars, call, _scheduler_should_run, _topic_node_id_receivers, _topic_node_id_senders, _stop_channel, nodes, starter,
                   stopper, ingress, busIn, nPub>>

\* ---------------------------------------------------------- specification
_run_node(n) == _run_node_first(n) \/ _run_node_step(n)
_listen_for_incoming_messages(k) == IngressWhile(k) \/ IngressRecv(k)
_listen_for_outgoing_messages(k) == EgressWhile(k) \/ EgressRecv(k)
start_caller == start \/ start_recv \/ start_return

Next ==
    \/ \E r \in RecvTopics, s \in SendTopics : schedule_node(<<r, s>>)
    \/ \E n \in 1..Len(nodes) : _run_node(n)
    \/ start_caller
    \/ stop
    \/ \E k \in 1..Len(ingress) : _listen_for_incoming_messages(k)
    \/ \E k \in 1..Len(egress) : _listen_for_outgoing_messages(k)
    \/ \E t \in RecvTopics, m \in Msg : Publish(t, m)

Spec == Init /\ [][Next]_vars

\* Every launched task that can run is eventually run (goless schedules
\* every runnable task); the callers of schedule_node and stop() and the
\* bus are under no obligation.
Fairness ==
    /\ \A n \in 1..MaxNodes : WF_vars(_run_node(n))
    /\ WF_vars(start_recv \/ start_return)
    /\ WF_vars(\E k \in 1..Len(ingress) : _listen_for_incoming_messages(k))
    /\ WF_vars(\E k \in 1..Len(egress) : _listen_for_outgoing_messages(k))

FairSpec == Init /\ [][Next]_vars /\ Fairness

\* ------------------------------------------------- direct registry calls
\* The registry methods called directly on a scheduler that runs no task, as
\* the unit tests do (test_scheduler.py:69-95).
Called(op, topics, node_id, raised, ret) ==
    [op |-> op, topics |-> topics, node_id |-> node_id, raised |-> raised,
     ret |-> ret, seq |-> call.seq + 1,
     prev |-> <<call.op, call.topics, call.node_id>>,
     rcv0 |-> _topic_node_id_receivers, snd0 |-> _topic_node_id_senders]

\* schedulers.py:73-77 called with (topics, node_id)
call_get_channels_from_topics(topics, node_id) ==
    /\ call.seq < MaxCalls
    /\ LET got == _get_channels_from_topics(topics, node_id)
       IN  /\ _topic_node_id_receivers' = got.rcv
           /\ _topic_node_id_senders' = got.snd
           /\ chan' = got.chan
           /\ call' = Called("_get_channels_from_topics", topics, node_id, FALSE,
                             <<got.rc, got.sc>>)
    /\ UNCHANGED <<unitVars, _scheduler_should_run, _stop_channel, nodes, starter,
                   stopper, ingress, egress, busIn, busOut, nPub>>

\* schedulers.py:84-88 called with (topics, node_id): line 87, then line 88
\* unless line 87 raised
call_deschedule_node(topics, node_id) ==
    /\ call.seq < MaxCalls
    /\ LET r == deschedule_node(_topic_node_id_receivers, topics[1], node_id)
           s == deschedule_node(_topic_node_id_senders, topics[2], node_id)
       IN  /\ _topic_node_id_receivers' = r.reg
           /\ _topic_node_id_senders' = IF r.raised THEN _topic_node_id_senders ELSE s.reg
           /\ call' = Called("deschedule_node", topics, node_id,
                             r.raised \/ s.raised, <<NoChan, NoChan>>)
    /\ UNCHANGED <<unitVars, _scheduler_should_run, chan, _stop_channel, nodes,
                   starter, stopper, ingress, egress, busIn, busOut, nPub>>

NextRegistry ==
    \/ \E r \in RecvTopics, s \in SendTopics, id \in 1..MaxNodes :
          call_get_channels_from_topics(<<r, s>>, id)
    \/ \E r \in RecvTopics, s \in SendTopics, id \in 1..MaxNodes :
          call_deschedule_node(<<r, s>>, id)

RegistrySpec == Init /\ [][NextRegistry]_vars

\* ------------------------------------------------------- id generation
\* Time passes between two calls
Tick ==
    /\ clock < MaxClock
    /\ clock' = clock + 1
    /\ UNCHANGED <<_last_timestamp, ids, adder, curried, stop_channels, call, _scheduler_should_run,
                   _topic_node_id_receivers, _topic_node_id_senders, chan,
                   _stop_channel, nodes, starter, stopper, ingress, egress,
                   busIn, busOut, nPub>>

\* schedulers.py:55 and 64-71: one id is generated from a uuid1 (its
\* timestamp, and clock-sequence bits r1) and a uuid4 (random bits r4).
\* Ghost fields: at (the clock reading of the call), u1 and u4.
call_get_node_id(r1, r4) ==
    /\ Len(ids) < MaxIds
    /\ LET ts == uuid1_timestamp(clock, _last_timestamp)
           u1 == uuid_int(ts, r1)
           u4 == r4
       IN  /\ _last_timestamp' = ts
           /\ ids' = Append(ids, [id |-> _get_node_id(u1, u4), at |-> clock,
                                  u1 |-> u1, u4 |-> u4])
    /\ UNCHANGED <<clock, adder, curried, stop_channels, call, _scheduler_should_run,
                   _topic_node_id_receivers, _topic_node_id_senders, chan,
                   _stop_channel, nodes, starter, stopper, ingress, egress,
                   busIn, busOut, nPub>>

NextId ==
    \/ Tick
    \/ \E r1 \in 0..MaxRand, r4 \in 0..MaxRand : call_get_node_id(r1, r4)

IdSpec == Init /\ [][NextId]_vars

\* --------------------------------------------------- a node on its own
\* A node activated directly by its caller, as in test_node.py:16-35.
\* One activation of the object nd with message: a generator is resumed
\* (nodes.py:26-30); anything else has no send() and no next().
Resumed(nd, message) ==
    IF nd.kind # "generator"
    THEN [nd EXCEPT !.acts = @ + 1, !.sent = message,
                    !.last = Activation(nd.gen, "AttributeError", 0,
                                        NoTopics, FALSE)]
    ELSE LET act == node_send(nd.gen, nd.topics, message)
         IN  [nd EXCEPT
                !.gen = act.gen,
                !.acts = @ + 1,
                !.calls = IF act.called THEN @ + 1 ELSE @,
                !.sent = message,
                !.before = nd.gen,
                !.by = IF nd.gen # "Stopped" /\ act.gen = "Stopped"
                       THEN act.out ELSE @,
                !.yields = IF act.out = "Yield"
                           THEN @ \cup {<<message, act.val>>} ELSE @,
                !.last = act]

\* the caller activates both nodes with the same message
Activate(message) ==
    /\ adder.acts < MaxActs
    /\ adder' = Resumed(adder, message)
    /\ curried' = Resumed(curried, message)
    /\ UNCHANGED <<clock, _last_timestamp, ids, stop_channels, call,
                   _scheduler_should_run,
                   _topic_node_id_receivers, _topic_node_id_senders, chan,
                   _stop_channel, nodes, starter, stopper, ingress, egress,
                   busIn, busOut, nPub>>

\* adder.next()
adder_next == Activate(None)
\* adder.send(message)
adder_send(message) == Activate(message)

\* messages a node is sent directly: MaxMsg raises, the others return
NodeMsg == 1..MaxNodeMsg

\* nodes.py:15-16: the node may be built with any topics
NodeInit ==
    /\ SchedulerInit
    /\ \E r \in RecvTopics, s \in SendTopics :
          /\ adder = BuiltAtOnce(<<r, s>>)
          /\ curried = BuiltInTwoSteps(<<r, s>>)

NextNode ==
    \/ adder_next
    \/ \E message \in NodeMsg \cup {STOP} : adder_send(message)

NodeSpec == NodeInit /\ [][NextNode]_vars

\* ------------------------------------------------- the one-node scenario
\* test_scheduler.py:18-23 and the scenario of the documentation: one node
\* with topics (R1, S1) and step x -> x + 2 is scheduled, the scheduler is
\* started and not stopped, and the bus delivers messages on R1 on which
\* the step function returns.
GoodMsg == {m \in NodeMsg : ~Raises(m)}

NextScenario ==
    \/ Len(nodes) = 0 /\ schedule_node(<<"R1", "S1">>)
    \/ _run_node(1)
    \/ start
    \/ \E k \in 1..Len(ingress) : _listen_for_incoming_messages(k)
    \/ \E k \in 1..Len(egress) : _listen_for_outgoing_messages(k)
    \/ \E m \in GoodMsg : Publish("R1", m)

ScenarioSpec == Init /\ [][NextScenario]_vars /\ Fairness

\* ------------------------------------------------------------------ reset
\* reset leaving the sending map as it is
ResetKeepsSenders ==
    /\ starter \in {"idle", "returned"}
    /\ stopper # "signal"
    /\ call.op # "reset"
    /\ _topic_node_id_receivers' = EmptyDict
    /\ _stop_channel' = 0
    /\ stop_channels' = stop_channels + 1
    /\ _scheduler_should_run' = TRUE
    /\ call' = Called("reset", NoTopics, 0, FALSE, <<NoChan, NoChan>>)
    /\ UNCHANGED <<clock, _last_timestamp, ids, adder, curried,
                   _topic_node_id_senders, chan, nodes, starter, stopper,
                   ingress, egress, busIn, busOut, nPub>>

\* reset leaving the run flag false
ResetClearsFlag ==
    /\ starter \in {"idle", "returned"}
    /\ stopper # "signal"
    /\ call.op # "reset"
    /\ _topic_node_id_receivers' = EmptyDict
    /\ _topic_node_id_senders' = EmptyDict
    /\ _stop_channel' = 0
    /\ stop_channels' = stop_channels + 1
    /\ _scheduler_should_run' = FALSE
    /\ call' = Called("reset", NoTopics, 0, FALSE, <<NoChan, NoChan>>)
    /\ UNCHANGED <<clock, _last_timestamp, ids, adder, curried, chan, nodes,
                   starter, stopper, ingress, egress, busIn, busOut, nPub>>

\* schedulers.py:24-33: two new, empty maps, a new stop channel on which
\* nobody waits, and the run flag set.  Called as its docstring asks, with
\* no caller inside start() or stop(); tasks of an earlier start() that
\* never ended may still be there.  The call is recorded in call, with the
\* two maps as they were.
reset ==
    /\ starter \in {"idle", "returned"}
    /\ stopper # "signal"
    /\ call.op # "reset"
    /\ _topic_node_id_receivers' = EmptyDict
    /\ _topic_node_id_senders' = EmptyDict
    /\ _stop_channel' = 0
    /\ stop_channels' = stop_channels + 1
    /\ _scheduler_should_run' = TRUE
    /\ call' = Called("reset", NoTopics, 0, FALSE, <<NoChan, NoChan>>)
    /\ UNCHANGED <<clock, _last_timestamp, ids, adder, curried, chan, nodes,
                   starter, stopper, ingress, egress, busIn, busOut, nPub>>

\* The scheduler run through one start() and stop(), with one node and one
\* bus message fewer than in Spec, and then reset; what the scheduler does
\* after the reset is not followed.
NextReset ==
    \/ /\ call.op # "reset"
       /\ \E r \in RecvTopics, s \in SendTopics :
             schedule_node(<<r, s>>) /\ Len(nodes') < MaxNodes
    \/ call.op # "reset" /\ \E n \in 1..Len(nodes) : _run_node(n)
    \/ call.op # "reset" /\ start_caller
    \/ call.op # "reset" /\ stop
    \/ call.op # "reset" /\ \E k \in 1..Len(ingress) : _listen_for_incoming_messages(k)
    \/ call.op # "reset" /\ \E k \in 1..Len(egress) : _listen_for_outgoing_messages(k)
    \/ /\ call.op # "reset"
       /\ \E t \in RecvTopics, m \in Msg : Publish(t, m) /\ nPub' < MaxPublish
    \/ reset

ResetSpec == Init /\ [][NextReset]_vars

\* ------------------------------------------- before the first start()
\* The one-node scenario on a scheduler that may have been reset after its
\* construction, before anything was scheduled on it.
NextFirstStart ==
    \/ Len(nodes) = 0 /\ reset
    \/ Len(nodes) = 0 /\ schedule_node(<<"R1", "S1">>)
    \/ _run_node(1)
    \/ start
    \/ \E k \in 1..Len(ingress) : _listen_for_incoming_messages(k)
    \/ \E k \in 1..Len(egress) : _listen_for_outgoing_messages(k)
    \/ \E m \in GoodMsg : Publish("R1", m)

FirstStartSpec == Init /\ [][NextFirstStart]_vars /\ Fairness

\* ------------------------------------------------ started, not stopped
\* Nodes with any topics on a started scheduler that is not stopped, the
\* bus delivering messages on which the step function returns and which
\* can be told apart.
NextOrder ==
    \/ \E r \in RecvTopics, s \in SendTopics : schedule_node(<<r, s>>)
    \/ \E n \in 1..Len(nodes) : _run_node(n)
    \/ start
    \/ \E k \in 1..Len(ingress) : _listen_for_incoming_messages(k)
    \/ \E k \in 1..Len(egress) : _listen_for_outgoing_messages(k)
    \/ \E t \in RecvTopics, m \in GoodMsg : Publish(t, m)

OrderSpec == Init /\ [][NextOrder]_vars

\* ------------------------------------------------ descheduling a listener
\* One node on a started scheduler, descheduled by a direct call of
\* deschedule_node with its topics and its id (test_scheduler.py:89-95)
\* while the pumps run and the bus goes on delivering.
NextDrain ==
    \/ Len(nodes) = 0 /\ \E r \in RecvTopics, s \in SendTopics : schedule_node(<<r, s>>)
    \/ _run_node(1)
    \/ start
    \/ \E n \in 1..Len(nodes) :
          nodes[n].pc # "spawned" /\ call_deschedule_node(nodes[n].topics, n)
    \/ \E k \in 1..Len(ingress) : _listen_for_incoming_messages(k)
    \/ \E k \in 1..Len(egress) : _listen_for_outgoing_messages(k)
    \/ \E t \in RecvTopics, m \in Msg : Publish(t, m)

DrainSpec == Init /\ [][NextDrain]_vars

\* schedulers.py:35-42 called again on the same scheduler after an earlier
\* start() has returned, without reset(): the flag is set again and two more
\* pump tasks are launched; nothing is done about the pumps launched before.
\* The caller of stop() has returned too and may call stop() again.
start_again ==
    /\ starter = "returned"
    /\ Len(ingress) < MaxStarts
    /\ _scheduler_should_run' = TRUE
    /\ ingress' = Append(ingress, NewIngress)
    /\ egress' = Append(egress, NewEgress)
    /\ starter' = "waiting"
    /\ stopper' = "idle"
    /\ UNCHANGED <<unitVars, call, _topic_node_id_receivers, _topic_node_id_senders, chan, _stop_channel, nodes,
                   busIn, busOut, nPub>>

\* The scheduler used for several start()/stop() cycles, with one node and
\* one bus message fewer than in Spec
NextCycle ==
    \/ \E r \in RecvTopics, s \in SendTopics :
          schedule_node(<<r, s>>) /\ Len(nodes') < MaxNodes
    \/ \E n \in 1..Len(nodes) : _run_node(n)
    \/ start_caller
    \/ start_again
    \/ stop
    \/ \E k \in 1..Len(ingress) : _listen_for_incoming_messages(k)
    \/ \E k \in 1..Len(egress) : _listen_for_outgoing_messages(k)
    \/ \E t \in RecvTopics, m \in Msg : Publish(t, m) /\ nPub' < MaxPublish

CycleSpec == Init /\ [][NextCycle]_vars

\* ================================================================= claims
\* Helpers of the claims' formulas
IsPrefix(s, t) == Len(s) <= Len(t) /\ SubSeq(t, 1, Len(s)) = s
Terminated(n) == nodes[n].pc \in {"dead", "done"}
Registered(n) ==
    \/ \E t \in DOMAIN _topic_node_id_receivers : n \in DOMAIN _topic_node_id_receivers[t]
    \/ \E t \in DOMAIN _topic_node_id_senders : n \in DOMAIN _topic_node_id_senders[t]
\* the channels held by the receiving map
ReceivingChannels ==
    {c \in DOMAIN chan : \E t \in DOMAIN _topic_node_id_receivers : \E n \in DOMAIN _topic_node_id_receivers[t] :
                             _topic_node_id_receivers[t][n] = c}

\* C2: whenever a node task has left its loop (STOP taken, activation
\* raised, or run flag seen false), the node's id is in neither
\* _topic_node_id_receivers[R] nor _topic_node_id_senders[S].
C2_DeregisteredOnExit ==
    \A n \in 1..Len(nodes) : Terminated(n) => ~Registered(n)

\* C6: no pump faults when it resumes its iteration of the registry after
\* the registry has changed shape.
C6_PumpsTolerateRegistryChange ==
    /\ \A k \in 1..Len(ingress) : ingress[k].pc # "crashed"
    /\ \A k \in 1..Len(egress) : egress[k].pc # "crashed"

\* C7: the step in which a node task takes STOP from its receiving channel
\* puts nothing on the node's sending channel, closes the node and leaves
\* the loop; a task that has left the loop never changes again and never
\* takes anything from its receiving channel.
C7_StopTerminatesNodeTask ==
    [][\A n \in 1..Len(nodes) :
          /\ ( /\ nodes[n].pc = "recv"
               /\ nodes'[n] # nodes[n]
               /\ Head(chan[nodes[n].rc]) = STOP )
             => /\ chan'[nodes[n].sc] = chan[nodes[n].sc]
                /\ chan'[nodes[n].rc] = Tail(chan[nodes[n].rc])
                /\ nodes'[n].gen = "Stopped"
                /\ nodes'[n].why = "stop"
                /\ Terminated(n)'
          /\ Terminated(n)
             => /\ nodes'[n] = nodes[n]
                /\ IsPrefix(chan[nodes[n].rc], chan'[nodes[n].rc])
      ]_vars

\* C7 witness: a node task that ended by taking STOP
C7_Witness ==
    \E n \in 1..Len(nodes) :
        /\ Terminated(n)
        /\ nodes[n].why = "stop"
        /\ nodes[n].gen = "Stopped"

\* C8: the step in which the ingress pump takes a message m from the bus on
\* topic R appends exactly one m to the receiving channel of every node
\* registered under R, and leaves every other channel as it was.
C8_BroadcastFanOut ==
    [][\A t \in RecvTopics :
          Len(busIn'[t]) < Len(busIn[t])
          => /\ \A n \in DOMAIN _topic_node_id_receivers[t] :
                   chan'[_topic_node_id_receivers[t][n]] = Append(chan[_topic_node_id_receivers[t][n]], Head(busIn[t]))
             /\ \A c \in DOMAIN chan :
                   (\A n \in DOMAIN _topic_node_id_receivers[t] : _topic_node_id_receivers[t][n] # c)
                   => chan'[c] = chan[c]
      ]_vars

\* C8 witness: two nodes registered under one topic both hold the same bus
\* message in their receiving channels
C8_Witness ==
    \E t \in DOMAIN _topic_node_id_receivers : \E n1, n2 \in DOMAIN _topic_node_id_receivers[t] :
        /\ n1 # n2
        /\ chan[_topic_node_id_receivers[t][n1]] # <<>>
        /\ chan[_topic_node_id_receivers[t][n2]] # <<>>
        /\ Head(chan[_topic_node_id_receivers[t][n1]]) \in Msg
        /\ Head(chan[_topic_node_id_receivers[t][n1]]) = Head(chan[_topic_node_id_receivers[t][n2]])

\* C9: the step that is the call of stop() appends exactly one STOP to every
\* channel of the receiving map, changes no other channel and nothing of the
\* bus, and leaves exactly one signal pending on the stop channel; stop()
\* sends nothing after that.
C9_StopProtocol ==
    [][/\ (stopper = "idle" /\ stopper' # "idle")
          => /\ stopper' = "signal"
             /\ _stop_channel' = _stop_channel + 1
             /\ \A c \in DOMAIN chan :
                   chan'[c] = IF c \in ReceivingChannels
                              THEN Append(chan[c], STOP) ELSE chan[c]
             /\ busOut' = busOut
             /\ busIn' = busIn
       /\ stopper # "idle" => _stop_channel' <= _stop_channel
       /\ stopper = "signal" /\ stopper' # "signal"
          => stopper' = "done" /\ _stop_channel' = _stop_channel - 1
      ]_vars

\* C9 witness: stop() has been called with two receiving channels registered
\* and both hold the STOP it sent
C9_Witness ==
    /\ stopper = "signal"
    /\ _stop_channel = 1
    /\ Cardinality(ReceivingChannels) = 2
    /\ \A c \in ReceivingChannels : chan[c] # <<>> /\ chan[c][Len(chan[c])] = STOP

\* C10: the call of start() launches exactly one ingress and one egress
\* pump; the run flag is true while start() waits; start() leaves its wait
\* only by taking one signal from the stop channel; the flag is false when
\* it returns.
C10_StartProtocol ==
    [][/\ (starter = "idle" /\ starter' # "idle")
          => /\ starter' = "waiting"
             /\ _scheduler_should_run'
             /\ ingress' = Append(ingress, NewIngress)
             /\ egress' = Append(egress, NewEgress)
       /\ starter # "idle" => (ingress' # ingress => Len(ingress') = Len(ingress))
       /\ starter # "idle" => (egress' # egress => Len(egress') = Len(egress))
       /\ starter' = "waiting" => _scheduler_should_run'
       /\ (starter = "waiting" /\ starter' # "waiting")
          => _stop_channel > 0 /\ _stop_channel' = _stop_channel - 1
       /\ starter' = "returned" => ~_scheduler_should_run'
      ]_vars

\* C10 witness: start() has returned after two pumps were launched
C10_Witness ==
    /\ starter = "returned"
    /\ ~_scheduler_should_run
    /\ Len(ingress) = 1
    /\ Len(egress) = 1

\* The progress properties below are discharged when the bus has used up its
\* MaxPublish messages (nPub = MaxPublish), so a behaviour that violates one
\* of them is one in which the bus could still have published.

\* the result of node n for message m has been published under n's topic
Published(n, m) ==
    \E i \in 1..Len(busOut[nodes[n].topics[2]]) : busOut[nodes[n].topics[2]][i] = func(m)

\* C1: on a started scheduler, for a node whose task has registered with
\* topics (R, S): once the bus holds a message m on R on which the step
\* function returns, step(m) is eventually published on S, unless stop() is
\* called.
C1_EndToEndDelivery ==
    \A n \in 1..MaxNodes : \A m \in Msg \ {PoisonMsg} :
        ( /\ n <= Len(nodes)
          /\ nodes[n].pc = "recv"
          /\ starter = "waiting"
          /\ \E i \in 1..Len(busIn[nodes[n].topics[1]]) : busIn[nodes[n].topics[1]][i] = m )
        ~> ( \/ stopper # "idle"
             \/ nPub = MaxPublish
             \/ n <= Len(nodes) /\ Published(n, m) )

\* C4: after stop() is called on a started scheduler, start() returns and
\* every node task and both pump tasks terminate.
C4_CleanShutdown ==
    (stopper # "idle")
    ~> ( \/ nPub = MaxPublish
         \/ /\ starter = "returned"
            /\ \A n \in 1..Len(nodes) : Terminated(n)
            /\ \A k \in 1..Len(ingress) : ingress[k].pc \in {"done", "crashed"}
            /\ \A k \in 1..Len(egress) : egress[k].pc \in {"done", "crashed"} )

\* C3: once the step function of node a has raised, a is in neither map of
\* the registry, and a node b with other topics than a's is still served:
\* a message the bus holds on b's receiving topic leads to its result being
\* published on b's sending topic, unless stop() is called.
C3_FaultIsolation ==
    /\ [](\A a \in 1..Len(nodes) : nodes[a].why = "fault" => ~Registered(a))
    /\ \A a, b \in 1..MaxNodes : \A m \in Msg \ {PoisonMsg} :
          ( /\ a <= Len(nodes) /\ b <= Len(nodes)
            /\ nodes[a].why = "fault"
            /\ nodes[b].pc = "recv"
            /\ nodes[a].topics[1] # nodes[b].topics[1]
            /\ nodes[a].topics[2] # nodes[b].topics[2]
            /\ starter = "waiting"
            /\ \E i \in 1..Len(busIn[nodes[b].topics[1]]) :
                  busIn[nodes[b].topics[1]][i] = m )
          ~> ( \/ stopper # "idle"
               \/ nPub = MaxPublish
               \/ b <= Len(nodes) /\ Published(b, m) )

\* a message precedes a STOP in sequence s
UnprocessedBeforeStop(s) ==
    \E i, j \in 1..Len(s) : i < j /\ s[i] \in Msg /\ s[j] = STOP

\* C5: every message that was in a node's receiving channel when stop() was
\* called (it precedes the STOP that stop() appended) has been taken and
\* processed by the node when the node task has ended without a fault.
C5_NoLostInFlight ==
    \A n \in 1..Len(nodes) :
        (Terminated(n) /\ nodes[n].why # "fault" /\ nodes[n].rc # NoChan)
        => ~UnprocessedBeforeStop(chan[nodes[n].rc])

\* the pump tasks that have run and now wait in a recv() for a message to move
AliveIngress == {k \in 1..Len(ingress) : ingress[k].pc = "busrecv"}
AliveEgress == {k \in 1..Len(egress) : egress[k].pc = "chanrecv"}

\* C11: in every reachable state, also after a second start() on the same
\* scheduler, at most one ingress pump task and at most one egress pump task
\* is alive and moving messages.
C11_ExactlyTwoPumps ==
    /\ Cardinality(AliveIngress) <= 1
    /\ Cardinality(AliveEgress) <= 1

\* the entries of a registry map: (topic, node id, channel) triples
Entries(reg) ==
    {<<t, n, reg[t][n]>> : <<t, n>> \in
        {x \in (DOMAIN reg) \X (1..MaxNodes) : x[2] \in DOMAIN reg[x[1]]}}
\* the last direct call was deschedule_node
Descheduled == call.op = "deschedule_node"
\* ... and the call before it was the same call
DescheduledAgain ==
    Descheduled /\ call.prev = <<"deschedule_node", call.topics, call.node_id>>
\* node_id was registered under topic in reg
Listed(reg, topic, node_id) ==
    topic \in DOMAIN reg /\ node_id \in DOMAIN reg[topic]

\* C12: deschedule_node(topics, node_id) never raises, whether the pair is
\* registered, was descheduled by the call before, or was never registered;
\* and a second identical call leaves both registry maps as the first call
\* left them.
C12_IdempotentDeschedule ==
    /\ Descheduled => ~call.raised
    /\ DescheduledAgain
       => /\ _topic_node_id_receivers = call.rcv0
          /\ _topic_node_id_senders = call.snd0

\* C12 witness: a pair that was registered has been descheduled twice in a row
C12_Witness ==
    /\ DescheduledAgain
    /\ ~call.raised
    /\ call.seq = 3
    /\ call.topics[1] \in DOMAIN _topic_node_id_receivers
    /\ call.topics[2] \in DOMAIN _topic_node_id_senders
    /\ \E c \in DOMAIN chan :
          c \notin {e[3] : e \in Entries(_topic_node_id_receivers)
                                   \cup Entries(_topic_node_id_senders)}

\* C13: deschedule_node(topics, node_id) called when node_id has no entry
\* under topics.receiving and none under topics.sending leaves both registry
\* maps unchanged, the sets of topic keys included.
C13_DescheduleAbsentIsNoOp ==
    ( /\ Descheduled
      /\ ~Listed(call.rcv0, call.topics[1], call.node_id)
      /\ ~Listed(call.snd0, call.topics[2], call.node_id) )
    => /\ _topic_node_id_receivers = call.rcv0
       /\ _topic_node_id_senders = call.snd0

\* C14: after deschedule_node(topics, node_id), node_id is in neither
\* receivers[topics.receiving] nor senders[topics.sending], and every other
\* (topic, node id) entry of both maps is still there with the same channel;
\* no entry is added.
C14_DescheduleRemovesExactlyOne ==
    Descheduled
    => /\ Entries(_topic_node_id_receivers)
            = {e \in Entries(call.rcv0) : <<e[1], e[2]>> # <<call.topics[1], call.node_id>>}
       /\ Entries(_topic_node_id_senders)
            = {e \in Entries(call.snd0) : <<e[1], e[2]>> # <<call.topics[2], call.node_id>>}

\* C14 witness: a registered node has been descheduled while another node is
\* registered under the same two topics
C14_Witness ==
    /\ Descheduled
    /\ Listed(call.rcv0, call.topics[1], call.node_id)
    /\ Listed(call.snd0, call.topics[2], call.node_id)
    /\ \E o \in 1..MaxNodes :
          /\ o # call.node_id
          /\ Listed(_topic_node_id_receivers, call.topics[1], o)
          /\ Listed(_topic_node_id_senders, call.topics[2], o)

\* C15: every id is the 32 hexadecimal digits of a time-based component
\* followed by the 32 hexadecimal digits of a random component, and no two
\* calls of _get_node_id return the same id, also when they are made at the
\* same clock reading.
C15_UniqueNodeIds ==
    /\ \A i \in 1..Len(ids) :
          /\ Len(ids[i].id) = 2 * HexLen
          /\ SubSeq(ids[i].id, 1, HexLen) = get_hex(ids[i].u1)
          /\ SubSeq(ids[i].id, HexLen + 1, 2 * HexLen) = get_hex(ids[i].u4)
          /\ \A d \in 1..(2 * HexLen) : ids[i].id[d] \in 0..15
    /\ \A i, j \in 1..Len(ids) : i # j => ids[i].id # ids[j].id

\* C15 witness: two ids generated at the same clock reading with the same
\* random component, and the same clock-sequence bits
C15_Witness ==
    \E i, j \in 1..Len(ids) :
        /\ i # j
        /\ ids[i].at = ids[j].at
        /\ ids[i].u4 = ids[j].u4
        /\ ids[i].u1 % (MaxRand + 1) = ids[j].u1 % (MaxRand + 1)

\* C16: the step that is a call of schedule_node adds exactly one task, bound
\* to the node (its topics, not yet activated) and to a fresh id, returns
\* that id, and does nothing else: the node has not been activated, no
\* channel has been resolved or created, no message has been taken.
C16_ScheduleNode ==
    [][Len(nodes') # Len(nodes)
       => /\ Len(nodes') = Len(nodes) + 1
          /\ SubSeq(nodes', 1, Len(nodes)) = nodes
          /\ nodes'[Len(nodes')].pc = "spawned"
          /\ nodes'[Len(nodes')].gen = "AwaitingTopics"
          /\ nodes'[Len(nodes')].rc = NoChan
          /\ nodes'[Len(nodes')].sc = NoChan
          /\ nodes'[Len(nodes')].ret = Len(nodes')
          /\ \A n \in 1..Len(nodes) : nodes[n].ret # nodes'[Len(nodes')].ret
          /\ ~(Registered(Len(nodes) + 1)')
          /\ _topic_node_id_receivers' = _topic_node_id_receivers
          /\ _topic_node_id_senders' = _topic_node_id_senders
          /\ chan' = chan
          /\ busIn' = busIn
          /\ busOut' = busOut
      ]_vars

\* C16 witness: schedule_node has returned the id of a second task while
\* the scheduler runs, and that task has not been activated yet
C16_Witness ==
    /\ Len(nodes) = 2
    /\ nodes[2].pc = "spawned"
    /\ nodes[2].ret = 2
    /\ nodes[1].pc = "recv"
    /\ starter = "waiting"

\* C17: for a node that is registered under topic R and waits for messages:
\* a step in which the ingress pump takes a message from the bus on R puts
\* exactly one copy of it at the end of the node's receiving channel; in any
\* other step that channel is left alone, or gets the STOP of stop() at its
\* end, or loses its first message, which is then the one handed to the
\* node (its result goes to the end of the node's sending channel).  So the
\* node is handed the messages in the order the pump received them.
C17_PerListenerOrdering ==
    [][\A n \in 1..Len(nodes) :
          ( /\ nodes[n].pc = "recv"
            /\ Listed(_topic_node_id_receivers, nodes[n].topics[1], n) )
          => IF Len(busIn'[nodes[n].topics[1]]) < Len(busIn[nodes[n].topics[1]])
             THEN chan'[nodes[n].rc]
                    = Append(chan[nodes[n].rc], Head(busIn[nodes[n].topics[1]]))
             ELSE \/ chan'[nodes[n].rc] = chan[nodes[n].rc]
                  \/ /\ chan'[nodes[n].rc] = Append(chan[nodes[n].rc], STOP)
                     /\ stopper = "idle" /\ stopper' = "signal"
                  \/ /\ chan[nodes[n].rc] # <<>>
                     /\ chan'[nodes[n].rc] = Tail(chan[nodes[n].rc])
                     /\ Head(chan[nodes[n].rc]) \in Msg \ {PoisonMsg}
                        => chan'[nodes[n].sc]
                             = Append(chan[nodes[n].sc], func(Head(chan[nodes[n].rc])))
      ]_vars

\* C17 witness: two different bus messages wait in a registered node's
\* receiving channel, in the order in which the bus held them, and the node
\* has been handed the first
C17_Witness ==
    \E n \in 1..Len(nodes) :
        /\ Listed(_topic_node_id_receivers, nodes[n].topics[1], n)
        /\ nodes[n].pc = "recv"
        /\ chan[nodes[n].rc] = <<2>>
        /\ chan[nodes[n].sc] = <<func(1)>>

\* the caller has activated the node at least once
Activated == adder.acts > 0

\* C18: a node that has yielded its topics and is activated with STOP
\* finishes without invoking func and without yielding anything, and every
\* activation of a finished node raises StopIteration: it invokes nothing
\* and yields nothing.
C18_NodeTerminatesOnStop ==
    /\ (Activated /\ adder.before = "Running" /\ adder.sent = STOP)
       => /\ adder.gen = "Stopped"
          /\ adder.last.out = "StopIteration"
          /\ ~adder.last.called
    /\ (Activated /\ adder.before = "Stopped")
       => /\ adder.gen = "Stopped"
          /\ adder.last.out = "StopIteration"
          /\ ~adder.last.called

\* C18 witness: a node finished by STOP has been handed a message afterwards
C18_Witness ==
    /\ adder.by = "StopIteration"
    /\ adder.before = "Stopped"
    /\ adder.sent \in Msg
    /\ adder.last.out = "StopIteration"

\* C19 as stated: the node only ever moves AwaitingTopics -> Running ->
\* Stopped, it leaves Running only when activated with STOP, and an
\* activation with a message on which func raises leaves it Running.
C19_StoppedOnlyBySTOP ==
    Activated
    => /\ <<adder.before, adder.gen>> \in
            { <<"AwaitingTopics", "AwaitingTopics">>, <<"AwaitingTopics", "Running">>,
              <<"Running", "Running">>, <<"Running", "Stopped">>,
              <<"Stopped", "Stopped">> }
       /\ (adder.before = "Running" /\ adder.sent # None /\ adder.gen = "Stopped")
          => adder.sent = STOP
       /\ (adder.before = "Running" /\ adder.sent # None /\ adder.last.out = "Raise")
          => adder.gen = "Running"

\* C19 amended: the node only ever moves AwaitingTopics -> Running ->
\* Stopped; it leaves Running exactly when it is activated with STOP or when
\* func raises in the activation; a node whose func raised is finished like
\* one that took STOP.
C19_StoppedBySTOPOrFault ==
    Activated
    => /\ <<adder.before, adder.gen>> \in
            { <<"AwaitingTopics", "AwaitingTopics">>, <<"AwaitingTopics", "Running">>,
              <<"Running", "Running">>, <<"Running", "Stopped">>,
              <<"Stopped", "Stopped">> }
       /\ (adder.before = "Running" /\ adder.gen = "Stopped")
          <=> (adder.before = "Running"
                /\ (adder.sent = STOP \/ adder.last.out = "Raise"))
       /\ adder.last.out = "Raise" <=> (adder.before = "Running" /\ Raises(adder.sent))
       /\ adder.by = "Raise" => adder.gen = "Stopped"

\* C19 witness: func has raised and the node, finished by that, has been
\* activated again
C19_Witness ==
    /\ adder.by = "Raise"
    /\ adder.before = "Stopped"
    /\ adder.last.out = "StopIteration"

\* C20: the first activation of a node yields the topics the node was built
\* with, invokes func not at all, and is handed no message.
C20_FirstActivation ==
    (adder.acts = 1 /\ adder.sent = None)
    => /\ adder.last.out = "YieldTopics"
       /\ adder.last.topics = adder.topics
       /\ ~adder.last.called
       /\ adder.calls = 0
       /\ adder.gen = "Running"

\* C20 witness: a node built with ("R2", "S1") has been activated once
C20_Witness ==
    /\ adder.acts = 1
    /\ adder.topics = <<"R2", "S1">>
    /\ adder.last.topics = <<"R2", "S1">>


\* C21: a node that has declared its topics and has not finished, activated
\* with a message m that is not STOP and on which step returns, yields
\* step(m) and stays Running; step is invoked exactly once for the message;
\* and every pair (message, result) the node has ever yielded is
\* (m, step(m)), whatever was sent before.
C21_NodeStep ==
    [][(adder' # adder /\ adder.gen = "Running"
        /\ adder'.sent # STOP /\ ~Raises(adder'.sent))
       => /\ adder'.last.out = "Yield"
          /\ adder'.last.val = func(adder'.sent)
          /\ adder'.gen = "Running"
          /\ adder'.calls = adder.calls + 1
          /\ adder'.yields = adder.yields \cup {<<adder'.sent, func(adder'.sent)>>}
          /\ \A p \in adder'.yields : p[2] = func(p[1])]_vars

\* three consecutive messages, one of them sent twice with another between
C21_Witness ==
    /\ adder.acts = 4
    /\ adder.calls = 3
    /\ adder.gen = "Running"
    /\ adder.last.out = "Yield"
    /\ adder.yields = {<<1, func(1)>>, <<3, func(3)>>}

\* C22: the node built by node(topics)(step) is a generator, as the node
\* built by node(topics, step) is, and activated with the same messages the
\* two go through the same yields and terminations.
C22_CurriedEquivalent ==
    /\ adder.kind = "generator"
    /\ curried.kind = "generator"
    /\ curried.topics = adder.topics
    /\ curried.gen = adder.gen
    /\ curried.last = adder.last
    /\ curried.by = adder.by
    /\ curried.yields = adder.yields

\* the node built in two steps has declared its topics, yielded a result
\* and terminated on STOP
C22_Witness ==
    /\ curried.acts >= 3
    /\ curried.kind = "generator"
    /\ curried.yields # {}
    /\ curried.by = "StopIteration"
    /\ curried.topics = <<"R2", "S2">>


\* the channel registered under reg[topic][node_id], NoChan when none is
SlotOf(reg, topic, node_id) ==
    IF topic \in DOMAIN reg /\ node_id \in DOMAIN reg[topic]
    THEN reg[topic][node_id] ELSE NoChan

Waiting(c) == IF c \in DOMAIN chan THEN chan[c] ELSE <<>>
\* the results of the step function for the messages of s, in order
Results(s) == [i \in DOMAIN s |-> func(s[i])]
\* What the one node has published and will publish on its sending topic:
\* the results on the bus, the results in its sending channel, and the
\* results of the messages in its receiving channel and on the bus
Pipeline ==
    LET rc == IF Len(nodes) >= 1 THEN nodes[1].rc ELSE NoChan
        sc == IF Len(nodes) >= 1 THEN nodes[1].sc ELSE NoChan
    IN  busOut["S1"] \o Waiting(sc) \o Results(Waiting(rc)) \o Results(busIn["R1"])

SendingChannels ==
    {c \in DOMAIN chan : \E t \in DOMAIN _topic_node_id_senders :
                            \E n \in DOMAIN _topic_node_id_senders[t] :
                               _topic_node_id_senders[t][n] = c}

\* C25: a call of reset() leaves both registry maps without any topic (and
\* so without any node entry), installs a stop channel that is none of the
\* stop channels made before and on which nobody waits, leaves no channel
\* reachable through the registry, launches no task (node tasks and pumps
\* are what they were) and sends no message (every channel and the bus
\* hold what they held).
C25_Reset ==
    [][(call'.seq = call.seq + 1 /\ call'.op = "reset")
       => /\ _topic_node_id_receivers' = EmptyDict
          /\ _topic_node_id_senders' = EmptyDict
          /\ stop_channels' \notin 1..stop_channels
          /\ _stop_channel' = 0
          /\ ReceivingChannels' = {} /\ SendingChannels' = {}
          /\ UNCHANGED <<nodes, ingress, egress, starter, stopper>>
          /\ UNCHANGED <<chan, busIn, busOut, nPub>>]_vars

\* reset after a start() and a stop(), with a node still registered, a
\* message waiting in a channel, and the pumps of the start() still there
C25_Witness ==
    /\ call.op = "reset"
    /\ call.rcv0 # EmptyDict /\ call.snd0 # EmptyDict
    /\ \E t \in DOMAIN call.snd0 : DOMAIN call.snd0[t] # {}
    /\ starter = "returned"
    /\ Len(ingress) = 1 /\ Len(egress) = 1
    /\ \E c \in DOMAIN chan : chan[c] # <<>>
    /\ _topic_node_id_receivers = EmptyDict


\* C26: a step that publishes on topic T takes the first message of the
\* sending channel of a node whose sending topic is T and which is
\* registered under senders[T], appends it to what the bus holds for T,
\* removes it from the channel (so that it is not published again) and
\* publishes nothing under any other topic; and a sending channel of a node
\* only ever grows by the result of that node's step function for the
\* message its task has just taken from its receiving channel.
C26_EgressRouting ==
    [][/\ \A T \in SendTopics :
            busOut'[T] # busOut[T]
            => /\ \E n \in 1..Len(nodes) :
                     /\ nodes[n].topics[2] = T
                     /\ nodes[n].sc # NoChan
                     /\ SlotOf(_topic_node_id_senders, T, n) = nodes[n].sc
                     /\ chan[nodes[n].sc] # <<>>
                     /\ busOut'[T] = Append(busOut[T], Head(chan[nodes[n].sc]))
                     /\ chan'[nodes[n].sc] = Tail(chan[nodes[n].sc])
               /\ \A U \in SendTopics \ {T} : busOut'[U] = busOut[U]
       /\ \A n \in 1..Len(nodes) :
            (nodes[n].sc \in DOMAIN chan
             /\ Len(chan'[nodes[n].sc]) > Len(chan[nodes[n].sc]))
            => /\ chan[nodes[n].rc] # <<>>
               /\ chan'[nodes[n].rc] = Tail(chan[nodes[n].rc])
               /\ chan'[nodes[n].sc] =
                     Append(chan[nodes[n].sc], func(Head(chan[nodes[n].rc])))]_vars

\* two nodes with different sending topics, a result of each published
\* under its own topic
C26_Witness ==
    /\ Len(nodes) = 2
    /\ nodes[1].topics[2] # nodes[2].topics[2]
    /\ busOut[nodes[1].topics[2]] = <<func(1)>>
    /\ busOut[nodes[2].topics[2]] = <<func(1)>>


\* C27: in every step taken once start() has returned and the run flag is
\* false, no message is received from the bus, no receiving channel gets a
\* message (no fan-out), nothing is published to the bus, and no node task
\* goes on to another receive/activate/send step: a task that has not yet
\* entered its loop does not enter it, and a task that finishes a step
\* leaves the loop.
C27_GatedByRunning ==
    [][(starter = "returned" /\ ~_scheduler_should_run)
       => /\ \A t \in RecvTopics : Len(busIn'[t]) >= Len(busIn[t])
          /\ \A n \in 1..Len(nodes) :
                nodes[n].rc \in DOMAIN chan
                => Len(chan'[nodes[n].rc]) <= Len(chan[nodes[n].rc])
          /\ busOut' = busOut
          /\ \A n \in 1..Len(nodes) :
                /\ (nodes[n].pc = "spawned" /\ nodes'[n] # nodes[n])
                   => nodes'[n].pc # "recv"
                /\ (nodes[n].pc = "recv" /\ nodes'[n] # nodes[n])
                   => nodes'[n].pc # "recv"]_vars


\* C28: while a task is inside an iteration of the node entries of a topic,
\* no step adds an entry to that topic's map or removes one from it.  The
\* fan-out of the ingress pump and the loop of stop() run without
\* suspension, inside one step; the egress pump is inside its iteration of
\* senders[topic] whenever it is blocked in the recv() of a channel found
\* under that topic.
C28_NoSameTopicMutation ==
    [][\A k \in 1..Len(egress) :
          egress[k].pc = "chanrecv"
          => DOMAIN _topic_node_id_senders'[egress[k].topic]
             = DOMAIN _topic_node_id_senders[egress[k].topic]]_vars


\* C29: a step of a node task in its loop takes exactly one message, the
\* first, from the node's receiving channel and resumes the node once with
\* it.  When the node yields a result (the message is not STOP and the
\* step function returns), exactly that result, step(message), is put at
\* the end of the sending channel; when the activation raises (StopIteration
\* on STOP, or an exception of the step function), the message is gone all
\* the same and the sending channel is left as it was.  No other channel
\* changes, and a step that takes nothing from the receiving channel puts
\* nothing on the sending channel.
C29_OneNodeTaskStep ==
    [][\A n \in 1..Len(nodes) :
          /\ (/\ nodes[n].pc = "recv"
              /\ \/ nodes'[n] # nodes[n]
                 \/ Len(chan'[nodes[n].rc]) < Len(chan[nodes[n].rc]))
             => LET message == Head(chan[nodes[n].rc])
                    yields == nodes[n].gen = "Running" /\ message # STOP
                              /\ ~Raises(message)
                IN  /\ chan[nodes[n].rc] # <<>>
                    /\ chan'[nodes[n].rc] = Tail(chan[nodes[n].rc])
                    /\ nodes'[n].gen = node_send(nodes[n].gen, nodes[n].topics, message).gen
                    /\ yields => chan'[nodes[n].sc] = Append(chan[nodes[n].sc], func(message))
                    /\ ~yields => /\ chan'[nodes[n].sc] = chan[nodes[n].sc]
                                  /\ nodes'[n].pc # "recv"
                    /\ \A c \in DOMAIN chan \ {nodes[n].rc, nodes[n].sc} : chan'[c] = chan[c]
          /\ (/\ nodes[n].sc \in DOMAIN chan
              /\ Len(chan'[nodes[n].rc]) >= Len(chan[nodes[n].rc]))
             => Len(chan'[nodes[n].sc]) <= Len(chan[nodes[n].sc])]_vars

\* one node has answered a message, another has lost one to an exception of
\* its step function
C29_Witness ==
    /\ Len(nodes) = 2
    /\ nodes[1].pc = "recv" /\ nodes[1].gen = "Running"
    /\ chan[nodes[1].rc] = <<>> /\ chan[nodes[1].sc] = <<func(1)>>
    /\ nodes[2].why = "fault"
    /\ chan[nodes[2].rc] = <<>> /\ chan[nodes[2].sc] = <<>>
    /\ nPub = 2


\* the node ids listening on a receive topic
Listeners(topic) ==
    IF topic \in DOMAIN _topic_node_id_receivers
    THEN DOMAIN _topic_node_id_receivers[topic] ELSE {}

\* C30: no step removes a topic from the keys of the receiving map, a
\* deschedule_node that removes the last listener of a topic included; and
\* when the ingress pump takes a bus message of a topic that has no
\* listener, the message is removed from the bus, no channel receives
\* anything, and the pump goes on to its next bus receive, on a topic that
\* is a key of the map.
C30_ListenerlessTopicsDrained ==
    [][/\ DOMAIN _topic_node_id_receivers \subseteq DOMAIN _topic_node_id_receivers'
       /\ \A k \in 1..Len(ingress) :
             (/\ ingress[k].pc = "busrecv"
              /\ Len(busIn'[ingress[k].topic]) < Len(busIn[ingress[k].topic])
              /\ Listeners(ingress[k].topic) = {})
             => /\ ingress[k].topic \in DOMAIN _topic_node_id_receivers
                /\ busIn'[ingress[k].topic] = Tail(busIn[ingress[k].topic])
                /\ chan' = chan
                /\ ingress'[k].pc = "busrecv"
                /\ ingress'[k].topic \in DOMAIN _topic_node_id_receivers']_vars

\* the node was descheduled, its topic is still a key, and the message the
\* bus delivered afterwards was taken by the pump and reached no channel
C30_Witness ==
    /\ Len(nodes) = 1
    /\ call.op = "deschedule_node"
    /\ nodes[1].topics[1] \in DOMAIN _topic_node_id_receivers
    /\ Listeners(nodes[1].topics[1]) = {}
    /\ nPub = 1
    /\ \A t \in RecvTopics : busIn[t] = <<>>
    /\ \A c \in DOMAIN chan : chan[c] = <<>>
    /\ \A t \in SendTopics : busOut[t] = <<>>
    /\ \E k \in 1..Len(ingress) :
          ingress[k].pc = "busrecv" /\ ingress[k].topic = nodes[1].topics[1]


\* C31: a node task that has not run yet has no entry in either map and no
\* channel, from the step of schedule_node on (which leaves both maps as
\* they are); whatever is fanned out or sent by stop() meanwhile reaches
\* channels that exist, none of them the node's.  The step in which the
\* task first runs makes two channels that did not exist, both empty, and
\* registers them under the node's topics; it takes nothing from the bus
\* and changes no other channel, so nothing sent earlier is replayed.
C31_LazyRegistration ==
    [][\A n \in 1..Len(nodes') :
          /\ nodes'[n].pc = "spawned"
             => /\ ~(Registered(n)')
                /\ nodes'[n].rc = NoChan /\ nodes'[n].sc = NoChan
          /\ n > Len(nodes)
             => /\ nodes'[n].pc = "spawned"
                /\ _topic_node_id_receivers' = _topic_node_id_receivers
                /\ _topic_node_id_senders' = _topic_node_id_senders
          /\ (n <= Len(nodes) /\ nodes[n].pc = "spawned" /\ nodes'[n] # nodes[n])
             => /\ nodes'[n].rc \notin DOMAIN chan
                /\ nodes'[n].sc \notin DOMAIN chan
                /\ nodes'[n].rc # nodes'[n].sc
                /\ chan'[nodes'[n].rc] = <<>>
                /\ chan'[nodes'[n].sc] = <<>>
                /\ \A c \in DOMAIN chan : chan'[c] = chan[c]
                /\ busIn' = busIn
                /\ nodes'[n].pc = "recv"
                   => /\ SlotOf(_topic_node_id_receivers', nodes[n].topics[1], n) = nodes'[n].rc
                      /\ SlotOf(_topic_node_id_senders', nodes[n].topics[2], n) = nodes'[n].sc]_vars

\* node 2 listens on R1 as node 1 does, and registered only after a message
\* on R1 had been fanned out and stop() had sent its STOPs: it waits on an
\* empty channel, has produced nothing, and has not been stopped
C31_Witness ==
    /\ Len(nodes) = 2
    /\ nodes[1].topics[1] = "R1" /\ nodes[2].topics[1] = "R1"
    /\ nPub = 1 /\ busIn["R1"] = <<>> /\ busIn["R2"] = <<>>
    /\ nodes[1].why = "stop"
    /\ chan[nodes[1].sc] = <<func(1)>>
    /\ stopper # "idle"
    /\ nodes[2].pc = "recv" /\ nodes[2].gen = "Running"
    /\ chan[nodes[2].rc] = <<>> /\ chan[nodes[2].sc] = <<>>
    /\ busOut["S1"] = <<>> /\ busOut["S2"] = <<>>


\* C32: as long as start() has not been called the run flag is true, after
\* construction and after a reset(); a node task that first runs in that
\* period registers its channels and enters its loop, where it stays,
\* waiting on its receiving channel; and once start() has been called, the
\* result of every message the bus delivers on its topic is eventually
\* published.
C32_RunFlagBeforeFirstStart ==
    /\ [](starter = "idle" => _scheduler_should_run)
    /\ [][\A n \in 1..Len(nodes) :
             starter = "idle"
             => /\ (nodes[n].pc = "spawned" /\ nodes'[n] # nodes[n])
                   => /\ nodes'[n].pc = "recv"
                      /\ nodes'[n].gen = "Running"
                      /\ Registered(n)'
                      /\ chan'[nodes'[n].rc] = <<>>
                /\ nodes[n].pc = "recv" => nodes'[n] = nodes[n]]_vars
    /\ []((Len(nodes) = 1 /\ nodes[1].pc = "recv" /\ starter = "idle")
          => [](\A k \in 1..MaxPublish :
                   (starter = "waiting" /\ nPub >= k)
                   => <>(Len(busOut["S1"]) >= k)))

\* after a reset and before any start(), the node has registered and waits
C32_Witness ==
    /\ call.op = "reset"
    /\ starter = "idle"
    /\ _scheduler_should_run
    /\ Len(nodes) = 1
    /\ nodes[1].pc = "recv"
    /\ Registered(1)
    /\ nPub >= 1


\* C33: a node task that first runs while the run flag is false (a start()
\* has returned and no later start() has been called) activates the node
\* for its topics, creates its two channels and its registry entries, and
\* has left its loop when the step ends; a task that has left its loop
\* never changes again, takes nothing from its receiving channel and puts
\* nothing on its sending channel, whatever is sent to it and whether or
\* not start() is called again: the node is never activated with a message.
C33_ScheduledWhileStopped ==
    [][\A n \in 1..Len(nodes) :
          /\ (nodes[n].pc = "spawned" /\ nodes'[n] # nodes[n] /\ ~_scheduler_should_run)
             => /\ Terminated(n)'
                /\ nodes'[n].why = "flag"
                /\ nodes'[n].gen = "Running"
                /\ nodes'[n].reported = 0
                /\ Len(chan') = Len(chan) + 2
                /\ nodes'[n].rc \notin DOMAIN chan /\ chan'[nodes'[n].rc] = <<>>
                /\ nodes'[n].sc \notin DOMAIN chan /\ chan'[nodes'[n].sc] = <<>>
                /\ nodes[n].topics[1] \in DOMAIN _topic_node_id_receivers'
                /\ nodes[n].topics[2] \in DOMAIN _topic_node_id_senders'
          /\ Terminated(n)
             => /\ nodes'[n] = nodes[n]
                /\ Len(chan'[nodes[n].rc]) >= Len(chan[nodes[n].rc])
                /\ Len(chan'[nodes[n].sc]) <= Len(chan[nodes[n].sc])]_vars

\* the node first ran between the return of start() and a second start();
\* the one message the bus delivered afterwards lies in its receiving
\* channel and the node has produced nothing
C33_Witness ==
    /\ Len(nodes) = 1
    /\ Len(ingress) = 2
    /\ Terminated(1)
    /\ nodes[1].why = "flag"
    /\ nodes[1].gen = "Running"
    /\ nPub = 1
    /\ chan[nodes[1].rc] = <<1>>
    /\ chan[nodes[1].sc] = <<>>
    /\ busOut["S1"] = <<>>


\* the results node n has produced and that are not yet published, after
\* what the bus holds for its sending topic
Produced(n) == busOut[nodes[n].topics[2]] \o chan[nodes[n].sc]
\* no other node publishes under the sending topic of node n
OwnSendingTopic(n) ==
    \A o \in 1..Len(nodes) : o # n => nodes[o].topics[2] # nodes[n].topics[2]

\* C34: the sending channel of a node changes only at its ends: a result
\* is added at the end, and it is the result for the message at the head
\* of the receiving channel, which is removed; or the oldest result is
\* removed and added at the end of what the bus holds for the node's
\* sending topic.  So for a node that has its sending topic to itself,
\* what is published followed by what waits only ever grows at the end:
\* results are published in the order of production, which is the order of
\* the inputs consumed.
C34_PerNodeOutputOrdering ==
    [][\A n \in 1..Len(nodes) :
          nodes[n].sc \in DOMAIN chan
          => LET S == nodes[n].topics[2]
                 rc == nodes[n].rc
                 sc == nodes[n].sc
             IN  /\ Len(chan'[sc]) > Len(chan[sc])
                    => /\ chan[rc] # <<>>
                       /\ chan'[rc] = Tail(chan[rc])
                       /\ chan'[sc] = Append(chan[sc], func(Head(chan[rc])))
                 /\ Len(chan'[sc]) < Len(chan[sc])
                    => /\ chan'[sc] = Tail(chan[sc])
                       /\ busOut'[S] = Append(busOut[S], Head(chan[sc]))
                 /\ Len(chan'[sc]) = Len(chan[sc]) => chan'[sc] = chan[sc]
                 /\ (OwnSendingTopic(n) /\ OwnSendingTopic(n)')
                    => IsPrefix(Produced(n), Produced(n)')]_vars

\* the node consumed 1 and then 3; the result for 1 is published, the
\* result for 3 waits
C34_Witness ==
    \E n \in 1..Len(nodes) :
        /\ nodes[n].sc \in DOMAIN chan
        /\ OwnSendingTopic(n)
        /\ busOut[nodes[n].topics[2]] = <<func(1)>>
        /\ chan[nodes[n].sc] = <<func(3)>>
        /\ chan[nodes[n].rc] = <<>>
        /\ nPub = 2


\* the node task has resolved its channels and is in its loop
InLoop(n) == nodes[n].pc = "recv"
\* the entries of a map that hold channel c, as <<topic, node id>>
EntriesHolding(reg, c) ==
    {e \in (DOMAIN reg) \X (1..MaxNodes) : SlotOf(reg, e[1], e[2]) = c}

\* C35: while a node task is in its loop, the receiving map holds under
\* the node's receiving topic and id the channel the task receives from,
\* and the sending map holds under its sending topic and id the channel
\* the task sends to; each of the two channels is held by that one entry
\* and by no other entry of either map, so no two tasks in their loops
\* use a channel in common; and a step that leaves the task in its loop
\* leaves the task's two channels and its two entries as they are.
C35_ChannelBindingStable ==
    /\ [](\A n \in 1..Len(nodes) :
            InLoop(n)
            => /\ nodes[n].rc # NoChan /\ nodes[n].sc # NoChan
               /\ SlotOf(_topic_node_id_receivers, nodes[n].topics[1], n) = nodes[n].rc
               /\ SlotOf(_topic_node_id_senders, nodes[n].topics[2], n) = nodes[n].sc
               /\ EntriesHolding(_topic_node_id_receivers, nodes[n].rc) = {<<nodes[n].topics[1], n>>}
               /\ EntriesHolding(_topic_node_id_senders, nodes[n].sc) = {<<nodes[n].topics[2], n>>}
               /\ EntriesHolding(_topic_node_id_receivers, nodes[n].sc) = {}
               /\ EntriesHolding(_topic_node_id_senders, nodes[n].rc) = {})
    /\ [][\A n \in 1..Len(nodes) :
            (InLoop(n) /\ InLoop(n)')
            => /\ nodes'[n].rc = nodes[n].rc
               /\ nodes'[n].sc = nodes[n].sc
               /\ nodes'[n].topics = nodes[n].topics
               /\ SlotOf(_topic_node_id_receivers', nodes[n].topics[1], n) = nodes[n].rc
               /\ SlotOf(_topic_node_id_senders', nodes[n].topics[2], n) = nodes[n].sc]_vars

\* two listeners of one topic, publishing under one topic, both in their
\* loops, each having produced a result that the bus now holds
C35_Witness ==
    /\ Len(nodes) = 2
    /\ nodes[1].topics = nodes[2].topics
    /\ InLoop(1) /\ InLoop(2)
    /\ nodes[1].rc # nodes[2].rc /\ nodes[1].sc # nodes[2].sc
    /\ chan[nodes[1].rc] = <<>> /\ chan[nodes[2].rc] = <<>>
    /\ chan[nodes[1].sc] = <<>> /\ chan[nodes[2].sc] = <<>>
    /\ busOut["S1"] = <<func(1), func(1)>>
    /\ nPub = 1


\* the step in which the task of node n, in its loop, takes the message
\* at the head of its receiving channel
TakesMessage(n) ==
    /\ InLoop(n)
    /\ Len(chan'[nodes[n].rc]) < Len(chan[nodes[n].rc])

\* C36: the step in which a node task takes a message on which the
\* activation raises (the step function's exception, or the generator's
\* end on STOP) emits one fault report for that node, puts nothing on the
\* sending channel and leaves the loop in that same step; a STOP is
\* reported like an exception of the step function.  No other step emits a
\* report, so a node has one report when its loop was left by STOP or by
\* an exception and none otherwise.
C36_FaultReporting ==
    /\ [][\A n \in 1..Len(nodes) :
            /\ (TakesMessage(n) /\ (Head(chan[nodes[n].rc]) = STOP \/ Raises(Head(chan[nodes[n].rc]))))
               => /\ nodes'[n].reported = nodes[n].reported + 1
                  /\ Terminated(n)'
                  /\ nodes'[n].gen = "Stopped"
                  /\ chan'[nodes[n].sc] = chan[nodes[n].sc]
                  /\ nodes'[n].why = IF Head(chan[nodes[n].rc]) = STOP THEN "stop" ELSE "fault"
            /\ ~(TakesMessage(n) /\ (Head(chan[nodes[n].rc]) = STOP \/ Raises(Head(chan[nodes[n].rc]))))
               => nodes'[n].reported = nodes[n].reported]_vars
    /\ [](\A n \in 1..Len(nodes) :
            /\ nodes[n].reported = (IF nodes[n].why \in {"stop", "fault"} THEN 1 ELSE 0)
            /\ nodes[n].reported > 0 => Terminated(n))

\* one node left its loop on an exception of the step function, the other
\* on the STOP sent by stop(); each has one report
C36_Witness ==
    /\ Len(nodes) = 2
    /\ nodes[1].why = "fault" /\ nodes[1].reported = 1
    /\ nodes[2].why = "stop" /\ nodes[2].reported = 1
    /\ Terminated(1) /\ Terminated(2)
    /\ stopper # "idle"

====
